---- MODULE Spec2Model ----
(***************************************************************************)
(* Nightingale-Chat backend: the sliding-window rate limiter               *)
(* (security/utils.py), the websocket endpoint and its in-memory           *)
(* connection registry (main.py) and the database-backed ConnectionManager *)
(* (services/websocket_manager.py, services/database_service.py).          *)
(*                                                                         *)
(* The specifications of the module:                                       *)
(*   SpecRate  check_rate_limit called for arbitrary keys while the clock  *)
(*             advances;                                                   *)
(*   SpecBroadcast  one call of broadcast over an arbitrary registry that  *)
(*             no other task changes meanwhile;                            *)
(*   Spec      concurrent websocket_endpoint handlers over main.py's       *)
(*             ConnectionManager, one asyncio task per websocket, a step   *)
(*             per stretch of code between two awaits;                     *)
(*   SpecMgr   concurrent callers of the database-backed ConnectionManager *)
(*             (connect / disconnect) over the user_sessions table;        *)
(*   SpecLoop, SpecEnvelope  two handlers, the first of which receives     *)
(*             many frames, or frames with every shape of envelope;        *)
(*   SpecAdmission  connection requests arriving one after the other from  *)
(*             one client address;                                         *)
(*   SpecPersist  calls of the database-backed broadcast, which writes the *)
(*             messages table before it delivers;                          *)
(*   SpecSessions  calls of create_session and end_session while the clock *)
(*             advances;                                                   *)
(*   SpecSeq, SpecTokens  SpecMgr with calls of connect that do not        *)
(*             overlap, or with websocket objects that are freed;          *)
(*   SpecValidate, SpecSanitize  validate_user_id on arbitrary arguments,  *)
(*             sanitize_input applied to its own result;                   *)
(*   SpecOnline  get_online_users while other tasks connect and            *)
(*             disconnect;                                                 *)
(*   SpecRecent  get_recent_messages over a growing messages table;        *)
(*   SpecStamp  the endpoint's stamped payloads through the                *)
(*             database-backed broadcast.                                  *)
(***************************************************************************)
EXTENDS Integers, Sequences, FiniteSets, TLC

VARIABLES
    now,                  \* datetime.now(), in whole seconds
    ticks,                \* number of clock advances so far
    rate_limit_storage,   \* client_id -> list of timestamps
    max_requests,         \* check_rate_limit's max_requests argument
    time_window,          \* check_rate_limit's time_window argument
    calls,                \* history: client_id -> list of [t, ok] of its calls
    active_connections,   \* ConnectionManager.active_connections (a dict)
    bcast,                \* per task: its call of ConnectionManager.broadcast
    send_errors,          \* history: per task, which of its call's sends raised
    pc,                   \* per websocket: where its handler stands
    ws_user_id,           \* per websocket: the user_id of its request
    frames,               \* per websocket: frames received so far
    disconnects,          \* history: per websocket, runs of the disconnect path
    data,                 \* per websocket: the frame of its current loop turn
    users,                \* table users: the user_id of every committed row
    user_sessions,        \* table user_sessions: the committed rows, in order
    dc_connection_id,     \* per websocket: connection_id computed by disconnect
    messages,             \* table messages: the committed rows, in order
    save_to_db,           \* per task: the save_to_db argument of its broadcast
    validated,            \* one call of validate_user_id: argument and result
    sanitized,            \* sanitize_input applied again to its own result
    online_users,         \* one call of get_online_users
    recent_messages       \* one call of get_recent_messages

rateVars == <<now, ticks, rate_limit_storage, max_requests, time_window, calls>>

regVars == <<active_connections, bcast, send_errors>>

taskVars == <<pc, ws_user_id, frames, disconnects, data>>

\* Single calls of the utilities and of the queries.
queryVars == <<validated, sanitized, online_users, recent_messages>>

dbVars == <<users, user_sessions, dc_connection_id, messages, save_to_db,
            queryVars>>

vars == <<rateVars, regVars, taskVars, dbVars>>

None == "None"

----------------------------------------------------------------------------
(* Bounds of the model *)

MaxTicks == 2
MaxCalls == 4
MaxRequestsBound == 2
MaxConns == 3
MaxFrames == 1
MaxAttempts == 6
MaxLoopFrames == 22
MaxEnvelopes == 2

----------------------------------------------------------------------------
(* security/utils.py: check_rate_limit *)

\* timedelta normalises to (days, seconds, microseconds) with
\* 0 <= seconds < 86400; the code reads the .seconds field only.
DaySeconds == 86400

timedelta_seconds(delta) == delta % DaySeconds

\* "Clean old entries": the list comprehension of check_rate_limit.
clean_old_entries(entries, t, window) ==
    SelectSeq(entries, LAMBDA timestamp : timedelta_seconds(t - timestamp) < window)

stored(storage, client_id) ==
    IF client_id \in DOMAIN storage THEN storage[client_id] ELSE <<>>

\* check_rate_limit(client_id, max_requests, time_window) at clock t:
\* the storage it leaves and the value it returns.
\* A limiter whose pruning runs over every key's list.
check_rate_limit_prune_all(storage, client_id, limit, window, t) ==
    LET kept == clean_old_entries(stored(storage, client_id), t, window)
        cleaned == [k \in DOMAIN storage \cup {client_id} |->
                        IF k = client_id THEN kept
                        ELSE clean_old_entries(storage[k], t, window)]
    IN  IF Len(kept) >= limit
        THEN [storage |-> cleaned, result |-> FALSE]
        ELSE [storage |-> [cleaned EXCEPT ![client_id] = Append(kept, t)],
              result  |-> TRUE]

\* A limiter that records the call and admits it whatever the window holds.
check_rate_limit_open(storage, client_id, limit, window, t) ==
    LET kept == clean_old_entries(stored(storage, client_id), t, window)
    IN  [storage |-> [k \in DOMAIN storage \cup {client_id} |->
                         IF k = client_id THEN Append(kept, t) ELSE storage[k]],
         result  |-> TRUE]

check_rate_limit(storage, client_id, limit, window, t) ==
    LET kept == clean_old_entries(stored(storage, client_id), t, window)
        cleaned == [k \in DOMAIN storage \cup {client_id} |->
                        IF k = client_id THEN kept ELSE storage[k]]
    IN  IF Len(kept) >= limit
        THEN [storage |-> cleaned, result |-> FALSE]
        ELSE [storage |-> [cleaned EXCEPT ![client_id] = Append(kept, t)],
              result  |-> TRUE]

----------------------------------------------------------------------------
(* SpecRate: the rate limiter under an advancing clock *)

RateKeys == {"client1", "client2"}

\* Windows the limiter is called with: a short one, the endpoint's 60 s,
\* and a daily quota.
TimeWindows == {2, 60, DaySeconds}

TickSteps == {1, time_window, DaySeconds}

TotalCalls == LET RECURSIVE Sum(_)
                  Sum(S) == IF S = {} THEN 0
                            ELSE LET k == CHOOSE x \in S : TRUE
                                 IN  Len(calls[k]) + Sum(S \ {k})
              IN  Sum(DOMAIN calls)

NoTasks ==
    /\ pc = <<>>
    /\ ws_user_id = <<>>
    /\ frames = <<>>
    /\ disconnects = <<>>
    /\ data = <<>>

\* No utility call and no query is under observation.
NoQueries ==
    /\ validated = <<>>
    /\ sanitized = <<>>
    /\ online_users = <<>>
    /\ recent_messages = <<>>

NoLedger ==
    /\ users = {}
    /\ user_sessions = <<>>
    /\ dc_connection_id = <<>>
    /\ messages = <<>>
    /\ save_to_db = <<>>
    /\ NoQueries

RateInit ==
    /\ NoLedger
    /\ active_connections = <<>>
    /\ bcast = <<>>
    /\ send_errors = <<>>
    /\ NoTasks
    /\ now = 0
    /\ ticks = 0
    /\ rate_limit_storage = [k \in {} |-> <<>>]
    /\ max_requests \in 1..MaxRequestsBound
    /\ time_window \in TimeWindows
    /\ calls = [k \in {} |-> <<>>]

\* The wall clock moves on between two calls.
Tick ==
    /\ ticks < MaxTicks
    /\ \E d \in TickSteps : now' = now + d
    /\ ticks' = ticks + 1
    /\ UNCHANGED <<rate_limit_storage, max_requests, time_window, calls>>
    /\ UNCHANGED <<regVars, taskVars>>
    /\ UNCHANGED dbVars

\* One call check_rate_limit(client_id, max_requests, time_window).
Admit(client_id) ==
    /\ TotalCalls < MaxCalls
    /\ LET r == check_rate_limit(rate_limit_storage, client_id,
                                 max_requests, time_window, now)
           log == IF client_id \in DOMAIN calls THEN calls[client_id] ELSE <<>>
       IN  /\ rate_limit_storage' = r.storage
           /\ calls' = [k \in DOMAIN calls \cup {client_id} |->
                           IF k = client_id
                           THEN Append(log, [t |-> now, ok |-> r.result])
                           ELSE calls[k]]
    /\ UNCHANGED <<now, ticks, max_requests, time_window>>
    /\ UNCHANGED <<regVars, taskVars>>
    /\ UNCHANGED dbVars

RateNext ==
    \/ Tick
    \/ \E client_id \in RateKeys : Admit(client_id)

SpecRate == RateInit /\ [][RateNext]_vars

----------------------------------------------------------------------------
(* The registry: active_connections, a Python dict.                        *)
(* A dict keeps its entries in insertion order; del leaves a dummy entry   *)
(* in place, a new key is appended, an existing key has its value replaced *)
(* in place, and a resize on insertion packs the dummies away.             *)

WebSockets == 1..MaxConns

UserIds == {"doc1", "doc2", "doc3"}

Dummy == [key |-> None, value |-> 0]

Live(d) == {i \in 1..Len(d) : d[i] # Dummy}

dict_used(d) == Cardinality(Live(d))

dict_keys(d) == {d[i].key : i \in Live(d)}

dict_items(d) == {<<d[i].key, d[i].value>> : i \in Live(d)}

dict_contains(d, k) == k \in dict_keys(d)

dict_getitem(d, k) == d[CHOOSE i \in Live(d) : d[i].key = k].value

dict_compact(d) == SelectSeq(d, LAMBDA e : e # Dummy)

\* A put that keeps the entry a key already has.
dict_setitem_keeping(d, k, v, resize) ==
    IF dict_contains(d, k)
    THEN d
    ELSE Append(IF resize THEN dict_compact(d) ELSE d, [key |-> k, value |-> v])

\* d[k] = v; resize tells whether this insertion resizes the table.
dict_setitem(d, k, v, resize) ==
    IF dict_contains(d, k)
    THEN [i \in 1..Len(d) |-> IF d[i] # Dummy /\ d[i].key = k
                               THEN [key |-> k, value |-> v] ELSE d[i]]
    ELSE Append(IF resize THEN dict_compact(d) ELSE d, [key |-> k, value |-> v])

\* A del that leaves the entry in place.
dict_delitem_skipped(d, k) == d

\* del d[k]
dict_delitem(d, k) ==
    [i \in 1..Len(d) |-> IF d[i] # Dummy /\ d[i].key = k THEN Dummy ELSE d[i]]

\* iter(d.items()): the size at creation, the next position, the items left.
dictiter_new(d) == [di_used |-> dict_used(d), di_pos |-> 1, len |-> dict_used(d)]

\* An iterator that looks for its next entry from the start of the table.
dictiter_next_restarting(d, it) ==
    IF it.di_used # dict_used(d)
    THEN [kind |-> "RuntimeError", key |-> None, value |-> 0,
          it |-> [it EXCEPT !.di_used = -1]]
    ELSE IF Live(d) = {} \/ it.len = 0
    THEN [kind |-> "StopIteration", key |-> None, value |-> 0, it |-> it]
    ELSE LET i == CHOOSE j \in Live(d) : \A m \in Live(d) : j <= m
         IN  [kind |-> "item", key |-> d[i].key, value |-> d[i].value,
              it |-> [it EXCEPT !.di_pos = i + 1, !.len = it.len - 1]]

\* next() of the items iterator: RuntimeError when the dict changed size
\* (or an item shows up that the iterator did not expect), StopIteration
\* past the last entry, else the next live entry.
dictiter_next(d, it) ==
    IF it.di_used # dict_used(d)
    THEN [kind |-> "RuntimeError", key |-> None, value |-> 0,
          it |-> [it EXCEPT !.di_used = -1]]
    ELSE LET rest == {i \in Live(d) : i >= it.di_pos}
         IN  IF rest = {}
             THEN [kind |-> "StopIteration", key |-> None, value |-> 0, it |-> it]
             ELSE IF it.len = 0
             THEN [kind |-> "RuntimeError", key |-> None, value |-> 0, it |-> it]
             ELSE LET i == CHOOSE j \in rest : \A m \in rest : j <= m
                  IN  [kind |-> "item", key |-> d[i].key, value |-> d[i].value,
                       it |-> [it EXCEPT !.di_pos = i + 1, !.len = it.len - 1]]

----------------------------------------------------------------------------
(* ConnectionManager.broadcast: the delivery loop                          *)
(*     for user_id, connection in self.active_connections.items():         *)
(*         if user_id != exclude_user:                                     *)
(*             try: await connection.send_text(message)                    *)
(*             except: pass                                                *)
(* A call is suspended at each await send_text; other tasks run meanwhile. *)

NoTarget == [user_id |-> None, connection |-> 0]

NoCall == [status |-> "none", message |-> None, exclude_user |-> None,
           it |-> [di_used |-> 0, di_pos |-> 1, len |-> 0],
           target |-> NoTarget, attempts |-> <<>>, snapshot |-> {}]

\* The loop without its exclusion test.
is_recipient_always(user_id, exclude_user) == TRUE

\* if user_id != exclude_user
is_recipient(user_id, exclude_user) == user_id # exclude_user

\* The for loop from its next() up to the next await send_text, the end of
\* the loop, or the RuntimeError of the iterator.
RECURSIVE broadcast_loop(_, _, _)
broadcast_loop(d, it, exclude_user) ==
    LET n == dictiter_next(d, it)
    IN  IF n.kind = "item"
        THEN IF is_recipient(n.key, exclude_user)
             THEN [kind |-> "send", it |-> n.it,
                   target |-> [user_id |-> n.key, connection |-> n.value]]
             ELSE broadcast_loop(d, n.it, exclude_user)
        ELSE IF n.kind = "StopIteration"
        THEN [kind |-> "return", it |-> n.it, target |-> NoTarget]
        ELSE [kind |-> "raise", it |-> n.it, target |-> NoTarget]

broadcast_advance(d, call) ==
    LET r == broadcast_loop(d, call.it, call.exclude_user)
    IN  [call EXCEPT !.status = IF r.kind = "send" THEN "sending"
                                ELSE IF r.kind = "return" THEN "returned"
                                ELSE "raised",
                     !.it = r.it,
                     !.target = r.target]

\* broadcast(message, exclude_user) up to its first await.
broadcast_begin(d, message, exclude_user) ==
    broadcast_advance(d, [NoCall EXCEPT !.message = message,
                                        !.exclude_user = exclude_user,
                                        !.it = dictiter_new(d),
                                        !.snapshot = dict_items(d)])

\* try: await connection.send_text(message) / except: pass
\* The send returned (ok) or raised (~ok); either way the loop goes on.
send_text_done(call, ok) ==
    [call EXCEPT !.attempts = Append(@, [user_id |-> call.target.user_id,
                                         connection |-> call.target.connection])]

\* The loop without its try/except: a send that raises ends the call.
broadcast_resume_unguarded(d, call, ok) ==
    IF ok THEN broadcast_advance(d, send_text_done(call, ok))
    ELSE [send_text_done(call, ok) EXCEPT !.status = "raised", !.target = NoTarget]

broadcast_resume(d, call, ok) == broadcast_advance(d, send_text_done(call, ok))

----------------------------------------------------------------------------
(* SpecBroadcast: one call of broadcast over an arbitrary registry, with   *)
(* every delivery free to succeed or to raise.                             *)

Entries == {Dummy} \cup [key : UserIds, value : WebSockets]

\* The dicts of at most MaxConns entries: distinct keys, distinct websockets.
Registries ==
    {d \in UNION {[1..n -> Entries] : n \in 0..MaxConns} :
        \A i, j \in Live(d) :
            i # j => (d[i].key # d[j].key /\ d[i].value # d[j].value)}

Caller == 1

BroadcastInit ==
    /\ active_connections \in Registries
    /\ bcast = [t \in {Caller} |-> NoCall]
    /\ send_errors = [t \in {Caller} |-> {}]
    /\ NoLedger
    /\ NoTasks
    /\ now = 0
    /\ ticks = 0
    /\ rate_limit_storage = <<>>
    /\ max_requests = 0
    /\ time_window = 0
    /\ calls = <<>>

BroadcastCall ==
    /\ bcast[Caller].status = "none"
    /\ \E exclude_user \in UserIds \cup {None} :
           bcast' = [bcast EXCEPT ![Caller] =
                        broadcast_begin(active_connections, "message", exclude_user)]
    /\ UNCHANGED <<rateVars, active_connections, send_errors, taskVars>>
    /\ UNCHANGED dbVars

\* A delivery loop that drops the registry entry whose send raised.
BroadcastSendDoneDropping ==
    /\ bcast[Caller].status = "sending"
    /\ \E ok \in BOOLEAN :
           LET d == IF ok THEN active_connections
                    ELSE dict_delitem(active_connections, bcast[Caller].target.user_id)
           IN  /\ active_connections' = d
               /\ bcast' = [bcast EXCEPT ![Caller] =
                               broadcast_resume(d, bcast[Caller], ok)]
               /\ send_errors' = [send_errors EXCEPT ![Caller] =
                      IF ok THEN @ ELSE @ \cup {Len(bcast[Caller].attempts) + 1}]
    /\ UNCHANGED <<rateVars, taskVars>>
    /\ UNCHANGED dbVars

BroadcastSendDone ==
    /\ bcast[Caller].status = "sending"
    /\ \E ok \in BOOLEAN :
           /\ bcast' = [bcast EXCEPT ![Caller] =
                           broadcast_resume(active_connections, bcast[Caller], ok)]
           /\ send_errors' = [send_errors EXCEPT ![Caller] =
                  IF ok THEN @ ELSE @ \cup {Len(bcast[Caller].attempts) + 1}]
    /\ UNCHANGED <<rateVars, active_connections, taskVars>>
    /\ UNCHANGED dbVars

BroadcastNext == BroadcastCall \/ BroadcastSendDone

SpecBroadcast == BroadcastInit /\ [][BroadcastNext]_vars

----------------------------------------------------------------------------
(* main.py: SecurityUtils.validate_user_id *)

Letters ==
    {"a", "b", "c", "d", "e", "f", "g", "h", "i", "j", "k", "l", "m",
     "n", "o", "p", "q", "r", "s", "t", "u", "v", "w", "x", "y", "z",
     "A", "B", "C", "D", "E", "F", "G", "H", "I", "J", "K", "L", "M",
     "N", "O", "P", "Q", "R", "S", "T", "U", "V", "W", "X", "Y", "Z"}

Digits == {"0", "1", "2", "3", "4", "5", "6", "7", "8", "9"}

\* [a-zA-Z0-9_-]
IdChars == Letters \cup Digits \cup {"_", "-"}

MaxUserIdLen == 100

BadId == "bad id!"

\* The characters of the identifiers the model uses.
Spelling(id) ==
    CASE id = "doc1" -> <<"d", "o", "c", "1">>
      [] id = "doc2" -> <<"d", "o", "c", "2">>
      [] id = "doc3" -> <<"d", "o", "c", "3">>
      [] id = BadId  -> <<"b", "a", "d", " ", "i", "d", "!">>

\* re.match(r'^[a-zA-Z0-9_-]+$', s): $ also matches before a final newline.
re_match_id(s) ==
    \/ Len(s) >= 1 /\ \A i \in 1..Len(s) : s[i] \in IdChars
    \/ Len(s) >= 2 /\ s[Len(s)] = "\n" /\ \A i \in 1..(Len(s) - 1) : s[i] \in IdChars

\* A validation that lets every identifier through.
validate_user_id_any(id) == TRUE

\* The two tests of validate_user_id on the characters s of a string.
validate_user_id_chars(s) ==
    IF Len(s) = 0 \/ Len(s) > MaxUserIdLen THEN FALSE ELSE re_match_id(s)

validate_user_id(id) == validate_user_id_chars(Spelling(id))

----------------------------------------------------------------------------
(* Inbound frames and the chat envelope (main.py, lines 201-233).          *)
(* A JSON string is the sequence of its characters.                        *)

MaxTextLen == 1000

Whitespace == {" ", "\t", "\n", "\r"}

\* html.escape(s)
RECURSIVE html_escape(_)
html_escape(s) ==
    IF s = <<>> THEN <<>>
    ELSE LET c == Head(s)
             e == CASE c = "&"  -> <<"&", "a", "m", "p", ";">>
                    [] c = "<"  -> <<"&", "l", "t", ";">>
                    [] c = ">"  -> <<"&", "g", "t", ";">>
                    [] c = "\"" -> <<"&", "q", "u", "o", "t", ";">>
                    [] c = "'"  -> <<"&", "#", "x", "2", "7", ";">>
                    [] OTHER    -> <<c>>
         IN  e \o html_escape(Tail(s))

\* The character references html.escape and bleach write.
Entities ==
    {<<"&", "a", "m", "p", ";">>, <<"&", "l", "t", ";">>, <<"&", "g", "t", ";">>,
     <<"&", "q", "u", "o", "t", ";">>, <<"&", "#", "x", "2", "7", ";">>}

StartsEntity(s) ==
    \E e \in Entities : Len(s) >= Len(e) /\ SubSeq(s, 1, Len(e)) = e

\* bleach.clean(s, tags=[], strip=True) on a text that holds no tag: the
\* markup characters left over are escaped, a character reference is kept.
RECURSIVE bleach_clean(_)
bleach_clean(s) ==
    IF s = <<>> THEN <<>>
    ELSE LET c == Head(s)
             e == CASE c = "&" /\ StartsEntity(s)  -> <<c>>
                    [] c = "&" /\ ~StartsEntity(s) -> <<"&", "a", "m", "p", ";">>
                    [] c = "<"  -> <<"&", "l", "t", ";">>
                    [] c = ">"  -> <<"&", "g", "t", ";">>
                    [] OTHER    -> <<c>>
         IN  e \o bleach_clean(Tail(s))

\* s.strip()
RECURSIVE lstrip(_)
lstrip(s) == IF s # <<>> /\ Head(s) \in Whitespace THEN lstrip(Tail(s)) ELSE s

RECURSIVE rstrip(_)
rstrip(s) ==
    IF s # <<>> /\ s[Len(s)] \in Whitespace
    THEN rstrip(SubSeq(s, 1, Len(s) - 1)) ELSE s

strip(s) == rstrip(lstrip(s))

\* SecurityUtils.sanitize_input(text, max_length) of a string; bleach tells
\* whether the bleach package is installed (BLEACH_AVAILABLE).
sanitize_input(text, max_length, bleach) ==
    IF text = <<>> THEN <<>>
    ELSE LET cut == SubSeq(text, 1, IF Len(text) < max_length
                                    THEN Len(text) ELSE max_length)
         IN  strip(html_escape(IF bleach THEN bleach_clean(cut) ELSE cut))

\* SecurityUtils.validate_message_length(message)
validate_message_length(message) == 0 < Len(message) /\ Len(message) <= MaxTextLen

\* A JSON value of the envelope's text field: absent, a string, a number, or
\* an array (items holds the characters of a string, the items of an array).
Absent == [json |-> "absent", items |-> <<>>]

JsonString(s) == [json |-> "string", items |-> s]

JsonNumber == [json |-> "number", items |-> <<>>]

JsonArray(a) == [json |-> "array", items |-> a]

TextValues ==
    {Absent,
     JsonString(<<"h", "i">>),
     JsonString(<<"a", "<", "b">>),
     JsonString(<<>>),
     JsonString(<<" ", " ">>),
     JsonString([i \in 1..(MaxTextLen + 1) |-> "x"]),
     JsonNumber,
     JsonArray(<<>>),
     JsonArray(<<"1", "2">>)}

\* An inbound frame: text that json.loads rejects, a JSON value that is no
\* object, or an object with its type, text and user_id members.
Unparsable == [kind |-> "unparsable", type |-> None, text |-> Absent, user_id |-> None]

NonObject == [kind |-> "non_object", type |-> None, text |-> Absent, user_id |-> None]

Envelope(type, text, user_id) ==
    [kind |-> "object", type |-> type, text |-> text, user_id |-> user_id]

Frames ==
    {Unparsable, NonObject}
        \cup {Envelope(type, text, user_id) :
                type \in {None, "message"}, text \in TextValues,
                user_id \in {None, "doc1", "doc2"}}

\* The system notices of the endpoint.
Notice(type, user_id) == Envelope(type, Absent, user_id)

\* One turn of the receive loop on a frame that passed the rate limit, from
\* json.loads to the call of broadcast: the error notice it answers with,
\* the exception it raises, or the payload it broadcasts.
process_frame(frame, bleach) ==
    IF frame.kind = "unparsable"
    THEN [outcome |-> "notice", payload |-> frame]          \* JSONDecodeError
    ELSE IF frame.kind = "non_object"
    THEN [outcome |-> "raise", payload |-> frame]           \* TypeError, AttributeError
    ELSE IF frame.text.json = "absent"
    THEN [outcome |-> "broadcast", payload |-> frame]
    ELSE IF frame.text.json = "number"
    THEN [outcome |-> "raise", payload |-> frame]           \* len(5): TypeError
    ELSE IF ~validate_message_length(frame.text.items)
    THEN [outcome |-> "notice", payload |-> frame]
    ELSE IF frame.text.json = "array"
    THEN [outcome |-> "raise", payload |-> frame]           \* html.escape([..])
    ELSE [outcome |-> "broadcast",
          payload |-> [frame EXCEPT !.text =
              JsonString(sanitize_input(frame.text.items, MaxTextLen, bleach))]]

----------------------------------------------------------------------------
(* main.py: websocket_endpoint over ConnectionManager.                     *)
(* One handler task per websocket; an action is the code a task runs       *)
(* between two awaits (asyncio runs one task at a time and switches only   *)
(* at an await).  In Spec the clock stands still.                          *)

ConnMaxRequests == 5
ConnTimeWindow == 60
MsgMaxRequests == 20
MsgTimeWindow == 60

ClientHosts == {"10.0.0.1"}

\* The user_id a websocket's request may carry.  Websockets and valid
\* identifiers are interchangeable, so the n-th websocket asks for one of
\* the first n identifiers; one websocket may also ask for a malformed one.
UserIdAt(n) == IF n = 1 THEN "doc1" ELSE IF n = 2 THEN "doc2" ELSE "doc3"

PathUserIds(ws) ==
    {UserIdAt(n) : n \in 1..ws} \cup (IF ws = MaxConns THEN {BadId} ELSE {})

\* f"ws_{client_host}_{user_id}" and f"msg_{user_id}"
conn_key(host, id) == <<"ws", host, id>>
msg_key(id) == <<"msg", id>>

\* What receive_text hands to the loop in Spec: a frame that is not JSON,
\* JSON that is not an object (5, [1], "x"), or a chat object with a valid
\* text.
SpecFrames ==
    {Unparsable, NonObject, Envelope("message", JsonString(<<"h", "i">>), None)}

\* No frame in hand: the handler is not inside a turn of its loop.
NoFrame == [kind |-> "none", type |-> None, text |-> Absent, user_id |-> None]

\* What awaiting send_text of an error notice to the sender can do.
SendOutcomes == {"ok", "WebSocketDisconnect", "RuntimeError"}

\* The handler awaits the send of an error notice to its own websocket:
\* rate limit exceeded, invalid message format, message too long or empty.
Notices == {"notice_rate", "notice_json", "notice_length"}

Terminated == {"closed_4000", "closed_4029", "done",
               "raised_join", "raised_loop", "raised_leave"}

Init ==
    /\ now = 0
    /\ ticks = 0
    /\ rate_limit_storage = <<>>
    /\ max_requests = 0
    /\ time_window = 0
    /\ calls = <<>>
    /\ active_connections = <<>>
    /\ bcast = [ws \in WebSockets |-> NoCall]
    /\ send_errors = [ws \in WebSockets |-> {}]
    /\ NoLedger
    /\ pc = [ws \in WebSockets |-> "new"]
    /\ ws_user_id = [ws \in WebSockets |-> None]
    /\ frames = [ws \in WebSockets |-> 0]
    /\ disconnects = [ws \in WebSockets |-> 0]
    /\ data = [ws \in WebSockets |-> NoFrame]

\* A handler that does not await its broadcast: it goes on while the sends
\* are still under way.
after_broadcast_detached(call, sending, returned, raised) ==
    IF call.status = "raised" THEN raised ELSE returned

\* Where the handler stands once its broadcast call has run as far as it
\* can: suspended in a send, returned to the caller, or raised.
after_broadcast(call, sending, returned, raised) ==
    IF call.status = "sending" THEN sending
    ELSE IF call.status = "returned" THEN returned
    ELSE raised

\* websocket_endpoint from its start to the await of websocket.accept(),
\* for a request whose path carries one of ids.
RequestAs(ws, ids) ==
    /\ pc[ws] = "new"
    /\ \E id \in ids, host \in ClientHosts :
        /\ ws_user_id' = [ws_user_id EXCEPT ![ws] = id]
        /\ IF ~validate_user_id(id)
           THEN /\ pc' = [pc EXCEPT ![ws] = "closed_4000"]
                /\ UNCHANGED rate_limit_storage
           ELSE LET r == check_rate_limit(rate_limit_storage, conn_key(host, id),
                                          ConnMaxRequests, ConnTimeWindow, now)
                IN  /\ rate_limit_storage' = r.storage
                    /\ pc' = [pc EXCEPT ![ws] =
                                 IF r.result THEN "accept" ELSE "closed_4029"]
    /\ UNCHANGED <<now, ticks, max_requests, time_window, calls>>
    /\ UNCHANGED <<regVars, frames, disconnects, data>>
    /\ UNCHANGED dbVars

Request(ws) == RequestAs(ws, PathUserIds(ws))

\* manager.connect after accept() returned, then the user_joined broadcast
\* up to its first await.
Connect(ws) ==
    /\ pc[ws] = "accept"
    /\ \E resize \in BOOLEAN :
        LET d    == dict_setitem(active_connections, ws_user_id[ws], ws, resize)
            call == broadcast_begin(d, Notice("user_joined", ws_user_id[ws]),
                                    ws_user_id[ws])
        IN  /\ active_connections' = d
            /\ bcast' = [bcast EXCEPT ![ws] = call]
            /\ pc' = [pc EXCEPT ![ws] =
                         after_broadcast(call, "join", "receive", "raised_join")]
    /\ UNCHANGED <<rateVars, send_errors, ws_user_id, frames, disconnects, data>>
    /\ UNCHANGED dbVars

\* A send_text of the handler's broadcast returned or raised; the loop runs
\* on to the next await, to its end, or to the iterator's RuntimeError.
\* That error leaves broadcast: outside the try (user_joined), past the
\* except WebSocketDisconnect (chat), or inside the except block (user_left).
SendDone(ws) ==
    /\ pc[ws] \in {"join", "msg", "leave"}
    /\ \E ok \in BOOLEAN :
        LET call == broadcast_resume(active_connections, bcast[ws], ok)
            next == IF pc[ws] = "join"
                    THEN after_broadcast(call, "join", "receive", "raised_join")
                    ELSE IF pc[ws] = "msg"
                    THEN after_broadcast(call, "msg", "receive", "raised_loop")
                    ELSE after_broadcast(call, "leave", "done", "raised_leave")
        IN  /\ bcast' = [bcast EXCEPT ![ws] = call]
            /\ pc' = [pc EXCEPT ![ws] = next]
            /\ data' = [data EXCEPT ![ws] = IF next = "receive" THEN NoFrame ELSE @]
    /\ UNCHANGED <<rateVars, active_connections, send_errors>>
    /\ UNCHANGED <<ws_user_id, frames, disconnects>>
    /\ UNCHANGED dbVars

\* manager.disconnect(ws_user_id) of main.py (self.users is never filled).
manager_disconnect(d, id) == IF dict_contains(d, id) THEN dict_delitem(d, id) ELSE d

\* except WebSocketDisconnect: manager.disconnect, then the user_left
\* broadcast up to its first await.
DisconnectPath(ws) ==
    LET d    == manager_disconnect(active_connections, ws_user_id[ws])
        call == broadcast_begin(d, Notice("user_left", ws_user_id[ws]), None)
    IN  /\ active_connections' = d
        /\ bcast' = [bcast EXCEPT ![ws] = call]
        /\ UNCHANGED send_errors
        /\ disconnects' = [disconnects EXCEPT ![ws] = @ + 1]
        /\ data' = [data EXCEPT ![ws] = NoFrame]
        /\ pc' = [pc EXCEPT ![ws] =
                     after_broadcast(call, "leave", "done", "raised_leave")]

\* receive_text raised WebSocketDisconnect: the client closed.
ReceiveDisconnect(ws) ==
    /\ pc[ws] = "receive"
    /\ DisconnectPath(ws)
    /\ UNCHANGED <<rateVars, ws_user_id, frames>>
    /\ UNCHANGED dbVars

\* receive_text returned one of frameset, the handler having received fewer
\* than limit frames: one turn of the loop up to its next await.
Receive(ws, frameset, limit) ==
    /\ pc[ws] = "receive"
    /\ frames[ws] < limit
    /\ frames' = [frames EXCEPT ![ws] = @ + 1]
    /\ \E frame \in frameset, bleach \in BOOLEAN :
        LET r == check_rate_limit(rate_limit_storage, msg_key(ws_user_id[ws]),
                                  MsgMaxRequests, MsgTimeWindow, now)
            p == process_frame(frame, bleach)
        IN  /\ rate_limit_storage' = r.storage
            /\ IF ~r.result
               THEN /\ pc' = [pc EXCEPT ![ws] = "notice_rate"]
                    /\ data' = [data EXCEPT ![ws] = frame]
                    /\ UNCHANGED regVars
               ELSE IF p.outcome = "notice"
               THEN /\ pc' = [pc EXCEPT ![ws] =
                          IF frame.kind = "unparsable"
                          THEN "notice_json" ELSE "notice_length"]
                    /\ data' = [data EXCEPT ![ws] = frame]
                    /\ UNCHANGED regVars
               ELSE IF p.outcome = "raise"
               THEN /\ pc' = [pc EXCEPT ![ws] = "raised_loop"]
                    /\ data' = [data EXCEPT ![ws] = frame]
                    /\ UNCHANGED regVars
               ELSE LET call == broadcast_begin(active_connections, p.payload,
                                                ws_user_id[ws])
                        next == after_broadcast(call, "msg", "receive", "raised_loop")
                    IN  /\ bcast' = [bcast EXCEPT ![ws] = call]
                        /\ pc' = [pc EXCEPT ![ws] = next]
                        /\ data' = [data EXCEPT ![ws] =
                                       IF next = "receive" THEN NoFrame ELSE frame]
                        /\ UNCHANGED <<active_connections, send_errors>>
    /\ UNCHANGED <<now, ticks, max_requests, time_window, calls>>
    /\ UNCHANGED <<ws_user_id, disconnects>>
    /\ UNCHANGED dbVars

ReceiveFrame(ws) == Receive(ws, SpecFrames, MaxFrames)

\* The await of the error notice's send_text ended: it returned (continue),
\* or raised WebSocketDisconnect (caught: the disconnect path), or raised
\* another error (not caught: it leaves the handler).
NoticeDone(ws) ==
    /\ pc[ws] \in Notices
    /\ \E outcome \in SendOutcomes :
        IF outcome = "WebSocketDisconnect"
        THEN DisconnectPath(ws)
        ELSE /\ pc' = [pc EXCEPT ![ws] =
                          IF outcome = "ok" THEN "receive" ELSE "raised_loop"]
             /\ data' = [data EXCEPT ![ws] = IF outcome = "ok" THEN NoFrame ELSE @]
             /\ UNCHANGED <<regVars, disconnects>>
    /\ UNCHANGED <<rateVars, ws_user_id, frames>>
    /\ UNCHANGED dbVars

Next ==
    \E ws \in WebSockets :
        \/ Request(ws)
        \/ Connect(ws)
        \/ SendDone(ws)
        \/ ReceiveDisconnect(ws)
        \/ ReceiveFrame(ws)
        \/ NoticeDone(ws)

Spec == Init /\ [][Next]_vars

----------------------------------------------------------------------------
(* SpecLoop and SpecEnvelope: one client sending frames while a second     *)
(* client connects and hangs up.  The handlers are those of Spec.  In      *)
(* SpecLoop the client sends more frames than the message limit allows, in *)
(* SpecEnvelope it sends frames of every kind.                             *)

LoopSockets == 1..2

\* What the handlers of both clients do besides receiving frames.
PairNext ==
    \E ws \in LoopSockets :
        \/ Request(ws)
        \/ Connect(ws)
        \/ SendDone(ws)
        \/ ReceiveDisconnect(ws)
        \/ NoticeDone(ws)

\* The first websocket's client sends the frames.
LoopFrame == Receive(1, SpecFrames, MaxLoopFrames)

LoopNext == PairNext \/ LoopFrame

SpecLoop == Init /\ [][LoopNext]_vars

EnvelopeFrame == Receive(1, Frames, MaxEnvelopes)

EnvelopeNext == PairNext \/ EnvelopeFrame

SpecEnvelope == Init /\ [][EnvelopeNext]_vars

----------------------------------------------------------------------------
(* SpecAdmission: one client address asking for connections again and      *)
(* again, more often than the admission limit allows.  The handlers are    *)
(* those of Spec; the clients send no frames.                              *)

Attempts == 1..MaxAttempts

\* The first request may be another user's, all later ones are doc1's.
AttemptUserIds(ws) == IF ws = 1 THEN {"doc1", "doc2"} ELSE {"doc1"}

AdmissionInit ==
    /\ now = 0
    /\ ticks = 0
    /\ rate_limit_storage = <<>>
    /\ max_requests = 0
    /\ time_window = 0
    /\ calls = <<>>
    /\ active_connections = <<>>
    /\ bcast = [ws \in Attempts |-> NoCall]
    /\ send_errors = [ws \in Attempts |-> {}]
    /\ NoLedger
    /\ pc = [ws \in Attempts |-> "new"]
    /\ ws_user_id = [ws \in Attempts |-> None]
    /\ frames = [ws \in Attempts |-> 0]
    /\ disconnects = [ws \in Attempts |-> 0]
    /\ data = [ws \in Attempts |-> NoFrame]

\* A handler at rest: connected and awaiting a frame, or ended.
Settled == {"receive"} \cup Terminated

\* The requests arrive one after the other, each when the handler of the
\* one before has come to rest.
AttemptRequest(ws) ==
    /\ IF ws = 1 THEN TRUE ELSE pc[ws - 1] \in Settled
    /\ RequestAs(ws, AttemptUserIds(ws))

\* Only the first client ever hangs up.
FirstCloses == ReceiveDisconnect(1)

AdmissionNext ==
    \/ \E ws \in Attempts :
           \/ AttemptRequest(ws)
           \/ Connect(ws)
           \/ SendDone(ws)
    \/ FirstCloses

SpecAdmission == AdmissionInit /\ [][AdmissionNext]_vars

----------------------------------------------------------------------------
(* The ledger's user_sessions table (services/database_service.py) *)

\* SessionService.create_session: the row its commit inserts.
create_session(sessions, user_id, connection_id) ==
    Append(sessions, [user_id |-> user_id, connection_id |-> connection_id,
                      is_active |-> TRUE, disconnected_at |-> None])

\* SessionService.end_session(db, connection_id): the UPDATE and its commit.
end_session(sessions, connection_id, t) ==
    [i \in 1..Len(sessions) |->
        IF sessions[i].connection_id = connection_id
        THEN [sessions[i] EXCEPT !.disconnected_at = t, !.is_active = FALSE]
        ELSE sessions[i]]

\* SessionService.get_active_sessions
get_active_sessions(sessions) == SelectSeq(sessions, LAMBDA row : row.is_active)

\* The parameters of the static method end_session.
end_session_params == <<"db", "connection_id">>

\* A call of end_session with positional arguments args: Python binds them
\* to the parameters first and raises TypeError when their number differs.
call_end_session(sessions, args, t) ==
    IF Len(args) # Len(end_session_params)
    THEN [raised |-> TRUE, user_sessions |-> sessions]
    ELSE [raised |-> FALSE, user_sessions |-> end_session(sessions, args[2], t)]

----------------------------------------------------------------------------
(* SpecSessions: calls of SessionService.create_session and end_session,   *)
(* one after the other, while the clock advances.                          *)

MaxSessions == 2

ConnectionIds == {<<"ws", n>> : n \in 1..MaxSessions}

SessionsInit ==
    /\ now = 0
    /\ ticks = 0
    /\ rate_limit_storage = <<>>
    /\ max_requests = 0
    /\ time_window = 0
    /\ calls = <<>>
    /\ active_connections = <<>>
    /\ bcast = <<>>
    /\ send_errors = <<>>
    /\ NoLedger
    /\ NoTasks

\* datetime.utcnow() has moved on.
SessionsTick ==
    /\ ticks < MaxTicks
    /\ now' = now + 1
    /\ ticks' = ticks + 1
    /\ UNCHANGED <<rate_limit_storage, max_requests, time_window, calls>>
    /\ UNCHANGED <<regVars, taskVars, dbVars>>

\* await create_session(db, user_id, connection_id)
SessionsCreate ==
    /\ Len(user_sessions) < MaxSessions
    /\ \E user_id \in {"doc1", "doc2"}, connection_id \in ConnectionIds :
           user_sessions' = create_session(user_sessions, user_id, connection_id)
    /\ UNCHANGED <<rateVars, regVars, taskVars>>
    /\ UNCHANGED <<users, dc_connection_id, messages, save_to_db, queryVars>>

\* await end_session(db, connection_id)
SessionsEnd ==
    /\ \E connection_id \in ConnectionIds :
           user_sessions' =
               call_end_session(user_sessions, <<"db", connection_id>>, now).user_sessions
    /\ UNCHANGED <<rateVars, regVars, taskVars>>
    /\ UNCHANGED <<users, dc_connection_id, messages, save_to_db, queryVars>>

SessionsNext == SessionsTick \/ SessionsCreate \/ SessionsEnd

SpecSessions == SessionsInit /\ [][SessionsNext]_vars

----------------------------------------------------------------------------
(* ConnectionManager of services/websocket_manager.py: connect and         *)
(* disconnect, one task per websocket, interleaved at the awaits.          *)

\* id(websocket): distinct for the handles alive together.
id(websocket) == websocket

\* f"ws_{id(websocket)}"
connection_id_of(websocket) == <<"ws", id(websocket)>>

MgrUserIds(ws) == {UserIdAt(n) : n \in 1..ws}

\* No call of the manager has been made, the tables are empty.
MgrStart ==
    /\ now = 0
    /\ ticks = 0
    /\ rate_limit_storage = <<>>
    /\ max_requests = 0
    /\ time_window = 0
    /\ calls = <<>>
    /\ active_connections = <<>>
    /\ bcast = <<>>
    /\ send_errors = <<>>
    /\ users = {}
    /\ user_sessions = <<>>
    /\ dc_connection_id = [ws \in WebSockets |-> None]
    /\ messages = <<>>
    /\ save_to_db = <<>>
    /\ pc = [ws \in WebSockets |-> "idle"]
    /\ ws_user_id = [ws \in WebSockets |-> None]
    /\ frames = <<>>
    /\ disconnects = <<>>
    /\ data = <<>>

MgrInit ==
    /\ MgrStart
    /\ NoQueries

\* connect(websocket, user_id) is called and awaits websocket.accept().
MgrCall(ws) ==
    /\ pc[ws] = "idle"
    /\ \E user_id \in MgrUserIds(ws) :
           ws_user_id' = [ws_user_id EXCEPT ![ws] = user_id]
    /\ pc' = [pc EXCEPT ![ws] = "accept"]
    /\ UNCHANGED <<rateVars, regVars, frames, disconnects, data, dbVars>>

\* accept() returned: self.active_connections[user_id] = websocket, then
\* create_or_update_user up to the await of its SELECT.
MgrPut(ws) ==
    /\ pc[ws] = "accept"
    /\ \E resize \in BOOLEAN :
           active_connections' =
               dict_setitem(active_connections, ws_user_id[ws], ws, resize)
    /\ pc' = [pc EXCEPT ![ws] = "user_select"]
    /\ UNCHANGED <<rateVars, bcast, send_errors, dbVars>>
    /\ UNCHANGED <<ws_user_id, frames, disconnects, data>>

\* The SELECT returned: the row is updated, or a new User is added to the
\* session; then the await of db.commit().
MgrUserSelect(ws) ==
    /\ pc[ws] = "user_select"
    /\ pc' = [pc EXCEPT ![ws] =
                 IF ws_user_id[ws] \in users THEN "user_update" ELSE "user_insert"]
    /\ UNCHANGED <<rateVars, regVars, ws_user_id, frames, disconnects, data, dbVars>>

\* db.commit() of create_or_update_user: the INSERT of a user_id that has
\* been committed meanwhile breaks the unique constraint and connect
\* raises; otherwise create_session runs up to the await of its commit.
MgrUserCommit(ws) ==
    /\ pc[ws] \in {"user_update", "user_insert"}
    /\ IF pc[ws] = "user_insert" /\ ws_user_id[ws] \in users
       THEN /\ pc' = [pc EXCEPT ![ws] = "connect_raised"]
            /\ UNCHANGED users
       ELSE /\ pc' = [pc EXCEPT ![ws] = "session_commit"]
            /\ users' = users \cup {ws_user_id[ws]}
    /\ UNCHANGED <<rateVars, regVars, ws_user_id, frames, disconnects, data>>
    /\ UNCHANGED <<user_sessions, dc_connection_id, messages, save_to_db,
                   queryVars>>

\* db.commit() of create_session inserts the session row; connect returns.
MgrSessionCommit(ws) ==
    /\ pc[ws] = "session_commit"
    /\ user_sessions' = create_session(user_sessions, ws_user_id[ws],
                                       connection_id_of(ws))
    /\ pc' = [pc EXCEPT ![ws] = "connected"]
    /\ UNCHANGED <<rateVars, regVars, ws_user_id, frames, disconnects, data>>
    /\ UNCHANGED <<users, dc_connection_id, messages, save_to_db, queryVars>>

\* disconnect without its test "user_id in self.active_connections": the
\* subscript of a missing key raises KeyError.
disconnect_unguarded(d, sessions, user_id, t) ==
    IF ~dict_contains(d, user_id)
    THEN [active_connections |-> d, user_sessions |-> sessions,
          connection_id |-> None, raised |-> TRUE]
    ELSE LET connection_id == connection_id_of(dict_getitem(d, user_id))
             ended == call_end_session(sessions,
                                       <<"session", user_id, connection_id>>, t)
         IN  [active_connections |-> dict_delitem(d, user_id),
              user_sessions |-> ended.user_sessions,
              connection_id |-> connection_id, raised |-> ended.raised]

\* disconnect(user_id): the connection_id of the handle registered now,
\* the del, and the call end_session(session, user_id, connection_id).
disconnect(d, sessions, user_id, t) ==
    IF ~dict_contains(d, user_id)
    THEN [active_connections |-> d, user_sessions |-> sessions,
          connection_id |-> None, raised |-> FALSE]
    ELSE LET connection_id == connection_id_of(dict_getitem(d, user_id))
             ended == call_end_session(sessions,
                                       <<"session", user_id, connection_id>>, t)
         IN  [active_connections |-> dict_delitem(d, user_id),
              user_sessions |-> ended.user_sessions,
              connection_id |-> connection_id, raised |-> ended.raised]

\* The handler of a connected websocket calls disconnect(user_id).
MgrDisconnect(ws) ==
    /\ pc[ws] = "connected"
    /\ LET r == disconnect(active_connections, user_sessions, ws_user_id[ws], now)
       IN  /\ active_connections' = r.active_connections
           /\ user_sessions' = r.user_sessions
           /\ dc_connection_id' = [dc_connection_id EXCEPT ![ws] = r.connection_id]
           /\ pc' = [pc EXCEPT ![ws] =
                        IF r.raised THEN "disconnect_raised" ELSE "disconnected"]
    /\ UNCHANGED <<rateVars, bcast, send_errors, users, messages, save_to_db,
                   queryVars>>
    /\ UNCHANGED <<ws_user_id, frames, disconnects, data>>

MgrNext ==
    \E ws \in WebSockets :
        \/ MgrCall(ws)
        \/ MgrPut(ws)
        \/ MgrUserSelect(ws)
        \/ MgrUserCommit(ws)
        \/ MgrSessionCommit(ws)
        \/ MgrDisconnect(ws)

SpecMgr == MgrInit /\ [][MgrNext]_vars

----------------------------------------------------------------------------
(* ConnectionManager.broadcast of services/websocket_manager.py: the       *)
(* persistence that precedes the delivery loop                             *)
(*     if save_to_db:                                                      *)
(*         try:                                                            *)
(*             message_data = json.loads(message)                          *)
(*             if message_data.get("type") == "message" \                  *)
(*                     and "text" in message_data:                         *)
(*                 await create_message(session, text=..., ...)            *)
(*                 await session.commit()                                  *)
(*         except (json.JSONDecodeError, KeyError): pass                   *)

MaxMessages == 2

\* MessageService.create_message: the row that db.commit() inserts.
\* message_id is the value of str(uuid.uuid4()), created_at the server's
\* now() (db_models.py, line 39).
create_message(rows, user_id, text, message_type, message_id, t) ==
    Append(rows, [message_id |-> message_id, text |-> text,
                  message_type |-> message_type, user_id |-> user_id,
                  created_at |-> t])

\* The message_id of a payload that carries one.
payload_ids(message) ==
    IF "message_id" \in DOMAIN message THEN {message.message_id} ELSE {}

\* The identifiers handed out so far that are still in a row or in a payload
\* under way.
uuids_in_use ==
    {messages[i].message_id : i \in 1..Len(messages)}
        \cup UNION {payload_ids(bcast[t].message) :
                      t \in {c \in DOMAIN bcast : bcast[c].status # "none"}}

\* uuid.uuid4(): an identifier that no earlier call returned.
uuid4(used) ==
    <<"uuid", CHOOSE n \in 1..(Cardinality(used) + 1) :
                  /\ <<"uuid", n>> \notin used
                  /\ \A m \in 1..(n - 1) : <<"uuid", m>> \in used>>

\* The test without its comparison of the type member.
is_chat_message_any_type(message_data) == message_data.text.json # "absent"

\* message_data.get("type") == "message" and "text" in message_data
is_chat_message(message_data) ==
    /\ message_data.type = "message"
    /\ message_data.text.json # "absent"

\* message_data.get(key, default) of a member the payload may omit
dict_get(value, default) == IF value = None THEN default ELSE value

\* broadcast from its call up to its first await or its end: it goes on to
\* the delivery loop, awaits create_message, or raises.  json.loads of text
\* that is no JSON raises JSONDecodeError, which is caught; a JSON value that
\* is no object has no get, and the AttributeError is not caught.
broadcast_prelude(message, flag) ==
    IF ~flag THEN "deliver"
    ELSE IF message.kind = "unparsable" THEN "deliver"
    ELSE IF message.kind = "non_object" THEN "raise"
    ELSE IF is_chat_message(message) THEN "create"
    ELSE "deliver"

----------------------------------------------------------------------------
(* SpecPersist: calls of the ledger-backed broadcast, one after the other, *)
(* over a registry that no other task changes; the commit of a row and     *)
(* every delivery are free to succeed or to raise.                         *)

PayloadTypes == {None, "message", "user_joined", "user_left"}

\* What broadcast is called with: the payloads the endpoint forwards and
\* builds, and text from other callers.
Payloads ==
    {Unparsable, NonObject}
        \cup {Envelope(type, text, user_id) :
                type \in PayloadTypes,
                text \in {Absent, JsonString(<<"h", "i">>)},
                user_id \in {None, "doc1"}}

\* The registries of fewer than MaxConns entries, none deleted, whose i-th
\* entry holds websocket i.
PersistRegistries ==
    {d \in Registries :
        /\ Len(d) < MaxConns
        /\ Live(d) = DOMAIN d
        /\ \A i \in DOMAIN d : d[i].value = i}

PersistInit ==
    /\ active_connections \in PersistRegistries
    /\ bcast = [t \in {Caller} |-> NoCall]
    /\ send_errors = [t \in {Caller} |-> {}]
    /\ users = {}
    /\ user_sessions = <<>>
    /\ dc_connection_id = <<>>
    /\ messages = <<>>
    /\ save_to_db = [t \in {Caller} |-> FALSE]
    /\ NoQueries
    /\ NoTasks
    /\ now = 0
    /\ ticks = 0
    /\ rate_limit_storage = <<>>
    /\ max_requests = 0
    /\ time_window = 0
    /\ calls = <<>>

\* broadcast(message, exclude_user, save_to_db) is called.
PersistCall ==
    /\ bcast[Caller].status \in {"none", "returned", "raised"}
    /\ Len(messages) < MaxMessages
    /\ \E message \in Payloads, exclude_user \in {None, "doc1"}, flag \in BOOLEAN :
           /\ save_to_db' = [save_to_db EXCEPT ![Caller] = flag]
           /\ bcast' = [bcast EXCEPT ![Caller] =
                  LET prelude == broadcast_prelude(message, flag)
                  IN  IF prelude = "deliver"
                      THEN broadcast_begin(active_connections, message, exclude_user)
                      ELSE [NoCall EXCEPT
                               !.status = IF prelude = "create" THEN "saving"
                                          ELSE "raised",
                               !.message = message,
                               !.exclude_user = exclude_user,
                               !.snapshot = dict_items(active_connections)]]
    /\ send_errors' = [send_errors EXCEPT ![Caller] = {}]
    /\ UNCHANGED <<rateVars, active_connections, taskVars>>
    /\ UNCHANGED <<users, user_sessions, dc_connection_id, messages,
                   queryVars>>

\* await create_message(...) ends: the row is committed and the delivery
\* loop starts, or the commit raises and so does broadcast.
PersistCommit ==
    /\ bcast[Caller].status = "saving"
    /\ \E ok \in BOOLEAN :
           IF ok
           THEN /\ messages' = create_message(messages,
                        dict_get(bcast[Caller].message.user_id, "system"),
                        bcast[Caller].message.text.items,
                        "text", uuid4(uuids_in_use), now)
                /\ bcast' = [bcast EXCEPT ![Caller] =
                       broadcast_begin(active_connections, bcast[Caller].message,
                                       bcast[Caller].exclude_user)]
           ELSE /\ bcast' = [bcast EXCEPT ![Caller].status = "raised"]
                /\ UNCHANGED messages
    /\ UNCHANGED <<rateVars, active_connections, send_errors, taskVars>>
    /\ UNCHANGED <<users, user_sessions, dc_connection_id, save_to_db,
                   queryVars>>

PersistNext == PersistCall \/ PersistCommit \/ BroadcastSendDone

SpecPersist == PersistInit /\ [][PersistNext]_vars

----------------------------------------------------------------------------
(* SpecSeq: SpecMgr with calls of connect that do not overlap: connect is  *)
(* called only while no other handler is inside connect.                   *)

InConnect == {"accept", "user_select", "user_update", "user_insert", "session_commit"}

SeqCall(ws) ==
    /\ \A other \in WebSockets : pc[other] \notin InConnect
    /\ MgrCall(ws)

SeqNext ==
    \E ws \in WebSockets :
        \/ SeqCall(ws)
        \/ MgrPut(ws)
        \/ MgrUserSelect(ws)
        \/ MgrUserCommit(ws)
        \/ MgrSessionCommit(ws)
        \/ MgrDisconnect(ws)

SpecSeq == MgrInit /\ [][SeqNext]_vars

----------------------------------------------------------------------------

(* SpecTokens: SpecMgr with websocket objects that are freed.  id() is the  *)
(* address of the object: an object created after another one was freed    *)
(* may get the address, and so the id(), of the freed one.                 *)

MaxRows == 2

\* The addresses at which websocket objects are created.
TokenSockets == 1..2

\* The handler of ws has ended and nothing refers to its websocket any more:
\* the object is freed, and the next request's websocket is created at its
\* address.
MgrReuse(ws) ==
    /\ pc[ws] \in {"disconnected", "disconnect_raised"}
    /\ \A i \in Live(active_connections) : active_connections[i].value # ws
    /\ Len(user_sessions) < MaxRows
    /\ pc' = [pc EXCEPT ![ws] = "idle"]
    /\ ws_user_id' = [ws_user_id EXCEPT ![ws] = None]
    /\ dc_connection_id' = [dc_connection_id EXCEPT ![ws] = None]
    /\ UNCHANGED <<rateVars, regVars, frames, disconnects, data>>
    /\ UNCHANGED <<users, user_sessions, messages, save_to_db, queryVars>>

TokensNext ==
    \E ws \in TokenSockets :
        \/ MgrCall(ws)
        \/ MgrPut(ws)
        \/ MgrUserSelect(ws)
        \/ MgrUserCommit(ws)
        \/ MgrSessionCommit(ws)
        \/ MgrDisconnect(ws)
        \/ MgrReuse(ws)

SpecTokens == MgrInit /\ [][TokensNext]_vars

----------------------------------------------------------------------------
(* Claims about one broadcast call (SpecBroadcast) *)

\* The entries a call has to deliver to: those of the registry it was
\* called on, less the excluded user's.
Recipients(call) == {e \in call.snapshot : e[1] # call.exclude_user}

AttemptsTo(call, e) ==
    {i \in 1..Len(call.attempts) :
        call.attempts[i].user_id = e[1] /\ call.attempts[i].connection = e[2]}


\* C1: when the delivery to one or more handles raises, the call does not
\* raise, never sends twice to an entry, and returns having called send_text
\* exactly once for every non-excluded entry of the registry.
C1_DeliveryErrorAbsorbed ==
    \A t \in DOMAIN bcast :
        LET call == bcast[t]
        IN  send_errors[t] # {} =>
                /\ call.status # "raised"
                /\ \A e \in Recipients(call) : Cardinality(AttemptsTo(call, e)) <= 1
                /\ call.status = "returned" =>
                       /\ \A e \in Recipients(call) :
                              Cardinality(AttemptsTo(call, e)) = 1
                       /\ Len(call.attempts) = Cardinality(Recipients(call))

\* C1's case: the first delivery raised, later entries were still served and
\* the call returned.
C1_Witness ==
    \E t \in DOMAIN bcast :
        /\ bcast[t].status = "returned"
        /\ Len(bcast[t].attempts) >= 2
        /\ 1 \in send_errors[t]

\* C4: over a registry of k entries that holds the excluded user id, the
\* call sends to exactly the k-1 other entries and never to the excluded
\* user's handle.
C4_ExcludesSender ==
    \A t \in DOMAIN bcast :
        LET call == bcast[t]
            own  == {e \in call.snapshot : e[1] = call.exclude_user}
        IN  own # {} =>
                /\ \A e \in own :
                       /\ AttemptsTo(call, e) = {}
                       /\ call.target.connection # e[2]
                       /\ \A i \in 1..Len(call.attempts) :
                              call.attempts[i].connection # e[2]
                /\ call.status = "returned" =>
                       /\ Len(call.attempts) = Cardinality(call.snapshot) - 1
                       /\ {<<call.attempts[i].user_id, call.attempts[i].connection>> :
                               i \in 1..Len(call.attempts)} = call.snapshot \ own

\* C4's case: a registry of three entries, the excluded user among them,
\* and two deliveries made.
C4_Witness ==
    \E t \in DOMAIN bcast :
        /\ bcast[t].status = "returned"
        /\ Cardinality(bcast[t].snapshot) = 3
        /\ \E e \in bcast[t].snapshot : e[1] = bcast[t].exclude_user
        /\ Len(bcast[t].attempts) = 2

----------------------------------------------------------------------------
(* Claims about the rate limiter (SpecRate) *)

callsOf(client_id) == IF client_id \in DOMAIN calls THEN calls[client_id] ELSE <<>>

\* Index of the last admitted call among the first j-1 calls of log L (0: none).
LastAdmittedBefore(L, j) ==
    LET S == {i \in 1..(j - 1) : L[i].ok}
    IN  IF S = {} THEN 0 ELSE CHOOSE i \in S : \A m \in S : m <= i

\* C8: for every key, the first max_requests calls made within time_window
\* seconds of the key's first call return true, the (max_requests+1)-th call
\* made within the same time_window seconds returns false, and a call made
\* time_window seconds after the last admitted call returns true.
C8_WindowAdmission ==
    \A k \in DOMAIN calls :
        LET L == calls[k]
        IN  /\ \A i \in 1..Len(L) :
                   (i <= max_requests /\ L[i].t - L[1].t < time_window) => L[i].ok
            /\ (Len(L) > max_requests
                    /\ L[max_requests + 1].t - L[1].t < time_window)
                   => ~L[max_requests + 1].ok
            /\ \A j \in 2..Len(L) :
                   LET a == LastAdmittedBefore(L, j)
                   IN  (a > 0 /\ L[j].t - L[a].t = time_window) => L[j].ok

\* C9: after every call for a key, every timestamp left in the key's list is
\* less than time_window seconds older than the time of that call, whatever
\* time has passed since it was recorded.
C9_WindowHoldsOnlyRecent ==
    \A k \in DOMAIN calls :
        \A i \in 1..Len(rate_limit_storage[k]) :
            calls[k][Len(calls[k])].t - rate_limit_storage[k][i] < time_window

\* The timestamps of a list that are less than window seconds old at time t.
Unexpired(entries, t, window) ==
    SelectSeq(entries, LAMBDA timestamp : t - timestamp < window)

\* C10: a call that returns false leaves the key's list holding exactly the
\* unexpired timestamps it held before the call; a call that returns true
\* leaves those followed by exactly one new timestamp, the current time.
C10_DeniedCallRecordsNothing ==
    [][\A k \in RateKeys :
          (Len(callsOf(k)') = Len(callsOf(k)) + 1) =>
              LET before == Unexpired(stored(rate_limit_storage, k), now, time_window)
              IN  IF calls'[k][Len(calls'[k])].ok
                  THEN rate_limit_storage'[k] = Append(before, now)
                  ELSE rate_limit_storage'[k] = before]_vars

----------------------------------------------------------------------------
(* Claims about concurrent handlers of websocket_endpoint (Spec) *)

\* C2: whatever other handlers connect or disconnect while a broadcast is
\* suspended in a delivery, the broadcast is not aborted, and once it has
\* returned it has called send_text exactly once for every non-excluded
\* entry registered when its iteration began, and for nothing else.
C2_BroadcastOverSnapshot ==
    \A t \in DOMAIN bcast :
        LET call == bcast[t]
        IN  /\ call.status # "raised"
            /\ call.status = "returned" =>
                   /\ \A e \in Recipients(call) :
                          Cardinality(AttemptsTo(call, e)) = 1
                   /\ Len(call.attempts) = Cardinality(Recipients(call))

\* The ways a handler's receive loop can have ended.
LoopEnded == {"leave", "done", "raised_loop", "raised_leave"}

\* C5: however the receive loop of an accepted connection ended, the
\* disconnect path has run exactly once for it and the registry holds no
\* entry for its handle.
C5_DisconnectPathOnce ==
    \A ws \in DOMAIN pc :
        pc[ws] \in LoopEnded =>
            /\ disconnects[ws] = 1
            /\ \A e \in dict_items(active_connections) : e[2] # ws

----------------------------------------------------------------------------
(* Claims about connect and disconnect of the ledger-backed manager        *)
(* (SpecMgr)                                                               *)

ConnectSuspended == {"user_select", "user_update", "user_insert", "session_commit"}

DisconnectEnded == {"disconnected", "disconnect_raised"}

\* C3: the registry write of connect maps the user id to the connecting
\* handle, the rest of connect up to its successful return leaves the
\* registry as it is, and the step of disconnect for a user id leaves the
\* registry without an entry for that id.
C3_RegistryAfterConnectDisconnect ==
    [][\A ws \in DOMAIN dc_connection_id :
          /\ pc[ws] = "accept" /\ pc'[ws] = "user_select" =>
                 /\ dict_contains(active_connections', ws_user_id[ws])
                 /\ dict_getitem(active_connections', ws_user_id[ws]) = ws
          /\ pc[ws] \in ConnectSuspended /\ pc'[ws] # pc[ws] =>
                 active_connections' = active_connections
          /\ pc[ws] = "connected" /\ pc'[ws] \in DisconnectEnded =>
                 ~dict_contains(active_connections', ws_user_id[ws])]_vars

\* C3's case: one handle has returned from connect and is the registry's
\* entry for its user id, another has run disconnect on an id that was
\* registered and that id is gone.
C3_Witness ==
    \E c, d \in DOMAIN dc_connection_id :
        /\ pc[c] = "connected"
        /\ dict_contains(active_connections, ws_user_id[c])
        /\ dict_getitem(active_connections, ws_user_id[c]) = c
        /\ pc[d] \in DisconnectEnded
        /\ dc_connection_id[d] # None
        /\ ~dict_contains(active_connections, ws_user_id[d])

\* The session rows opened with a handle's connection token.
SessionsOf(ws) ==
    {i \in 1..Len(user_sessions) :
        user_sessions[i].connection_id = connection_id_of(ws)}

\* C6: once a handle has connected and then disconnected, disconnect has
\* completed without raising and the session row of that connect is
\* inactive, has disconnected_at set and is no active session.
C6_DisconnectClosesSession ==
    \A ws \in DOMAIN dc_connection_id :
        pc[ws] \in DisconnectEnded =>
            /\ pc[ws] = "disconnected"
            /\ \A i \in SessionsOf(ws) :
                   /\ ~user_sessions[i].is_active
                   /\ user_sessions[i].disconnected_at # None
                   /\ \A j \in 1..Len(get_active_sessions(user_sessions)) :
                          get_active_sessions(user_sessions)[j].connection_id
                              # connection_id_of(ws)

\* C7: the token a handle's disconnect passes on to close the session is
\* the token that handle's own connect opened its session with, also when
\* the same user id has connected on another handle meanwhile, and no row
\* opened with another token is closed.
C7_ClosesOwnSession ==
    \A ws \in DOMAIN dc_connection_id :
        pc[ws] \in DisconnectEnded =>
            /\ dc_connection_id[ws] = connection_id_of(ws)
            /\ \A other \in DOMAIN dc_connection_id :
                   pc[other] \notin DisconnectEnded =>
                       \A i \in SessionsOf(other) : user_sessions[i].is_active

----------------------------------------------------------------------------
(* Independence of the limiter's keys (SpecRate) *)

\* The window of a key after the first n calls of its own log L, computed
\* from those calls alone.
RECURSIVE ReplayWindow(_, _)
ReplayWindow(L, n) ==
    IF n = 0 THEN <<>>
    ELSE LET kept == clean_old_entries(ReplayWindow(L, n - 1), L[n].t, time_window)
         IN  IF Len(kept) >= max_requests THEN kept ELSE Append(kept, L[n].t)

\* The result of the n-th call of log L, computed from L alone.
ReplayResult(L, n) ==
    Len(clean_old_entries(ReplayWindow(L, n - 1), L[n].t, time_window))
        < max_requests

\* Every key's window and every result follow from that key's own calls.
OwnHistoryOnly ==
    \A k \in DOMAIN calls :
        /\ stored(rate_limit_storage, k) = ReplayWindow(calls[k], Len(calls[k]))
        /\ \A n \in 1..Len(calls[k]) : calls[k][n].ok = ReplayResult(calls[k], n)

\* A call for k1 leaves the window of every other key as it was.
OtherKeysUnchanged ==
    \A k1 \in RateKeys, k2 \in RateKeys :
        k1 # k2 /\ callsOf(k1)' # callsOf(k1) =>
            /\ stored(rate_limit_storage', k2) = stored(rate_limit_storage, k2)
            /\ (k2 \in DOMAIN rate_limit_storage') = (k2 \in DOMAIN rate_limit_storage)

\* C11: for distinct keys k1 and k2 and any sequence of calls, a call for k1
\* leaves k2's window unchanged, and the result of every call for k1 (and
\* k1's window) is determined by the history of the calls for k1 alone.
C11_KeysIndependent == []OwnHistoryOnly /\ [][OtherKeysUnchanged]_vars

\* C11's case: both keys have been called, client1 has been denied while
\* client2, called after client1's window filled, was admitted.
C11_Witness ==
    /\ \E n \in 1..Len(callsOf("client1")) : ~callsOf("client1")[n].ok
    /\ \E m \in 1..Len(callsOf("client2")) :
           /\ callsOf("client2")[m].ok
           /\ Len(stored(rate_limit_storage, "client1")) >= max_requests
    /\ stored(rate_limit_storage, "client2") # <<>>

----------------------------------------------------------------------------
(* Claims about refused connection requests *)

\* The step of a handler that leaves "new": its request has been examined.
Examined(ws) == pc[ws] = "new" /\ pc'[ws] # "new"

\* The handle is the value of no registry entry.
Unregistered(ws) == \A e \in dict_items(active_connections) : e[2] # ws

\* The identifier format: 1 to 100 characters, each a letter, a digit, an
\* underscore or a hyphen.
WellFormed(user_id) ==
    /\ Len(Spelling(user_id)) \in 1..MaxUserIdLen
    /\ \A i \in 1..Len(Spelling(user_id)) : Spelling(user_id)[i] \in IdChars

\* A handler whose identifier is malformed is never accepted or registered
\* and never broadcasts.
RefusedStaysOut ==
    \A ws \in DOMAIN pc :
        pc[ws] # "new" /\ ~WellFormed(ws_user_id[ws]) =>
            /\ pc[ws] = "closed_4000"
            /\ Unregistered(ws)
            /\ bcast[ws] = NoCall

\* The step that examines a malformed identifier changes nothing but the
\* handler's own position.
RefusalChangesNothing ==
    \A ws \in DOMAIN pc :
        Examined(ws) /\ ~WellFormed(ws_user_id'[ws]) =>
            /\ pc'[ws] = "closed_4000"
            /\ UNCHANGED <<active_connections, bcast, rate_limit_storage, dbVars>>

\* C12: a request whose user identifier fails validation is closed with
\* code 4000 without being accepted; the registry, the ledger and the
\* limiter's windows stay as they were and no user_joined notice is sent.
C12_InvalidIdRefused == []RefusedStaysOut /\ [][RefusalChangesNothing]_vars

\* C12's case: "bad id!" was refused while another user is connected and
\* the limiter holds that user's window.
C12_Witness ==
    \E ws \in DOMAIN pc :
        /\ pc[ws] = "closed_4000"
        /\ ws_user_id[ws] = BadId
        /\ dict_used(active_connections) >= 1
        /\ DOMAIN rate_limit_storage # {}

\* The earlier requests of the same client address for the same user id.
Priors(ws) == {w \in 1..(ws - 1) : ws_user_id[w] = ws_user_id[ws]}

\* A request with a valid identifier that comes after max_requests=5
\* requests for the same key, all within the window.
OverLimit(ws) ==
    /\ pc[ws] # "new"
    /\ WellFormed(ws_user_id[ws])
    /\ Cardinality(Priors(ws)) >= ConnMaxRequests

\* Such a request is closed with 4029, is never registered and never
\* broadcasts.
DeniedStaysOut ==
    \A ws \in DOMAIN pc :
        OverLimit(ws) =>
            /\ pc[ws] = "closed_4029"
            /\ Unregistered(ws)
            /\ bcast[ws] = NoCall

\* The step that denies it leaves the registry, every broadcast and the
\* ledger as they were.
DenialChangesNothing ==
    \A ws \in DOMAIN pc :
        Examined(ws) /\ OverLimit(ws)' =>
            /\ pc'[ws] = "closed_4029"
            /\ UNCHANGED <<active_connections, bcast, dbVars>>

\* C13: a request with a valid identifier that the admission limit (5 per
\* client address and user id in 60 seconds) denies is closed with code
\* 4029 without being accepted, and the registry, with the entry of the
\* same user's live connection, and the ledger stay as they were.
C13_RateLimitedRefused == []DeniedStaysOut /\ [][DenialChangesNothing]_vars

\* C13's case: the sixth request for doc1 was closed with 4029 while doc1
\* is registered on an earlier handle.
C13_Witness ==
    \E ws \in DOMAIN pc :
        /\ pc[ws] = "closed_4029"
        /\ ws_user_id[ws] = "doc1"
        /\ dict_contains(active_connections, "doc1")
        /\ dict_getitem(active_connections, "doc1") # ws

----------------------------------------------------------------------------
(* Claims about the receive loop (SpecLoop, SpecEnvelope) *)

\* The step on which a handler takes a frame from receive_text.
Received(ws) == frames'[ws] = frames[ws] + 1

\* The handler's registry entry: its user id mapped to its own handle.
Registered(ws) ==
    /\ dict_contains(active_connections, ws_user_id[ws])
    /\ dict_getitem(active_connections, ws_user_id[ws]) = ws

\* A frame past the first max_requests=20 of its user, all of them received
\* at one clock reading, gets the rate notice, sent to the sender's own
\* websocket, and is neither broadcast nor persisted; the registry stays.
DeniedFrameAnswered ==
    \A ws \in DOMAIN frames :
        Received(ws) /\ frames'[ws] > MsgMaxRequests =>
            /\ pc'[ws] = "notice_rate"
            /\ UNCHANGED <<active_connections, bcast, dbVars, disconnects>>

\* When the notice has been sent the handler is back at receive_text; the
\* only other ways on are the client's hanging up and a send that raises.
NoticeThenOn ==
    \A ws \in DOMAIN frames :
        pc[ws] = "notice_rate" /\ pc'[ws] # "notice_rate" =>
            \/ pc'[ws] = "receive"
                   /\ UNCHANGED <<active_connections, bcast, dbVars, disconnects>>
            \/ disconnects'[ws] = disconnects[ws] + 1
            \/ pc'[ws] = "raised_loop"

\* C14: when the message limit denies an inbound message (the 21st within
\* the window, limit 20), the sender gets the error notice, the message is
\* not broadcast and not persisted, the registry is unchanged, and the
\* handler stays connected and takes the next message.
C14_DeniedMessageAnswered ==
    [][DeniedFrameAnswered /\ NoticeThenOn]_vars

\* C14's case: the 21st frame was denied and answered, and the handler,
\* still registered, has taken the 22nd.
C14_Witness ==
    \E ws \in DOMAIN frames :
        /\ frames[ws] = MsgMaxRequests + 2
        /\ pc[ws] = "notice_rate"
        /\ Registered(ws)
        /\ disconnects[ws] = 0

\* A frame that is no well-formed envelope: unparsable, not an object, or
\* with a text member that is not a string.
Malformed(frame) ==
    \/ frame.kind \in {"unparsable", "non_object"}
    \/ frame.kind = "object" /\ frame.text.json \in {"number", "array"}

\* C15: while a handler works on a frame that is unparsable, is no JSON
\* object, or has a text that is no string, it is sending an error notice to
\* its own websocket and nothing else: it has not raised, has not run the
\* disconnect path, and that frame is not being broadcast.
C15_MalformedFrameAnswered ==
    \A ws \in DOMAIN data :
        Malformed(data[ws]) =>
            /\ pc[ws] \in Notices
            /\ disconnects[ws] = 0

\* The payload of a handler's chat broadcast, when it has one under way or
\* behind it.
IsChat(call) ==
    /\ call.status # "none"
    /\ call.message.type \notin {"user_joined", "user_left"}

\* C16: no chat payload that is broadcast has a text that is empty once
\* trimmed or longer than 1000 characters.
C16_NoEmptyOrLongText ==
    \A ws \in DOMAIN bcast :
        IsChat(bcast[ws]) /\ bcast[ws].message.text.json = "string" =>
            /\ strip(bcast[ws].message.text.items) # <<>>
            /\ Len(bcast[ws].message.text.items) <= MaxTextLen

\* C17: every chat payload that is broadcast carries the user_id under
\* which the sending connection was admitted.
C17_AuthoritativeUserId ==
    \A ws \in DOMAIN bcast :
        IsChat(bcast[ws]) => bcast[ws].message.user_id = ws_user_id[ws]

----------------------------------------------------------------------------
(* Claims about the persistence of broadcast payloads (SpecPersist) *)

\* A payload the endpoint forwards for a frame with valid text: an object
\* whose type is "message" or omitted and whose text passed the length check.
ValidChat(message) ==
    /\ message.kind = "object"
    /\ message.type \in {None, "message"}
    /\ message.text.json = "string"
    /\ validate_message_length(message.text.items)
    /\ \E frame \in Frames, bleach \in BOOLEAN :
           /\ process_frame(frame, bleach).outcome = "broadcast"
           /\ process_frame(frame, bleach).payload = message

RowsOf(text) == {i \in 1..Len(messages) : messages[i].text = text}

\* C18: once broadcast with save_to_db has returned for a chat payload with
\* valid text, whether or not the payload names a type, the messages table
\* holds a row with that text.
C18_ValidMessagePersisted ==
    \A t \in DOMAIN bcast :
        (/\ bcast[t].status = "returned"
         /\ save_to_db[t]
         /\ ValidChat(bcast[t].message))
            => RowsOf(bcast[t].message.text.items) # {}

SystemNotices == {"user_joined", "user_left"}

\* C19: a step that adds a row to the messages table is the commit of a
\* call whose payload is not of type user_joined or user_left, whatever the
\* call's save_to_db.
C19_NoticeNeverPersisted ==
    [][messages' # messages =>
          \E t \in DOMAIN bcast :
              /\ bcast[t].status = "saving"
              /\ bcast[t].message.type \notin SystemNotices]_vars

\* A user_joined payload with a text, broadcast with save_to_db, has been
\* delivered, and the table holds just the row of the chat message before it.
C19_Witness ==
    \E t \in DOMAIN bcast :
        /\ bcast[t].status = "returned"
        /\ save_to_db[t]
        /\ bcast[t].message.type = "user_joined"
        /\ bcast[t].message.text.json = "string"
        /\ bcast[t].attempts # <<>>
        /\ Len(messages) = 1

\* A payload without the chat-message shape: text that is no JSON, a JSON
\* value that is no object, an object whose type is not "message" or that
\* has no text.
NotChatShape(message) ==
    \/ message.kind # "object"
    \/ message.type # "message"
    \/ message.text.json = "absent"

\* C20: a call of broadcast with save_to_db for a payload without the
\* chat-message shape never awaits create_message, never raises, and has
\* called send_text for every non-excluded entry of the registry when it
\* returns.
C20_ShapelessPayloadDelivered ==
    \A t \in DOMAIN bcast :
        (/\ bcast[t].status # "none"
         /\ save_to_db[t]
         /\ NotChatShape(bcast[t].message))
            => /\ bcast[t].status \notin {"saving", "raised"}
               /\ bcast[t].status = "returned" =>
                      \A e \in Recipients(bcast[t]) : AttemptsTo(bcast[t], e) # {}

\* C21: when create_message raises for a chat message that is being
\* broadcast, the error does not leave broadcast: the call goes on, so that
\* the caller can report the failed send and keep the connection.
C21_PersistFailureSurfaced ==
    [][\A t \in DOMAIN bcast :
          bcast[t].status = "saving" => bcast'[t].status # "raised"]_vars

\* C23: no step of a broadcast call, the end of a send that raised
\* included, adds, removes or replaces an entry of the registry.
C23_BroadcastKeepsRegistry ==
    /\ [][active_connections' = active_connections]_vars
    /\ [](\A t \in DOMAIN bcast :
             bcast[t].status # "none" =>
                 dict_items(active_connections) = bcast[t].snapshot)

\* A call over two entries has returned, a send of it raised, and the
\* registry still holds both entries.
C23_Witness ==
    \E t \in DOMAIN bcast :
        /\ bcast[t].status = "returned"
        /\ send_errors[t] # {}
        /\ Len(bcast[t].attempts) = 2
        /\ dict_used(active_connections) = 2

----------------------------------------------------------------------------
(* Claims about broadcast among concurrent handlers (Spec) *)

\* C22: no call of broadcast sends twice to one handle, whatever connects
\* and disconnects happen while the call is suspended in its sends.
C22_AtMostOncePerHandle ==
    \A ws \in DOMAIN bcast :
        \A i, j \in 1..Len(bcast[ws].attempts) :
            i # j => bcast[ws].attempts[i].connection # bcast[ws].attempts[j].connection

\* A call that has sent to one handle is suspended in its next send while
\* another handler has changed the registry it iterates over.
C22_Witness ==
    \E ws \in DOMAIN bcast :
        /\ bcast[ws].status = "sending"
        /\ Len(bcast[ws].attempts) >= 1
        /\ dict_items(active_connections) # bcast[ws].snapshot

\* The call of handler ws is its broadcast of the notice of the given type
\* and has ended, by returning or by raising.
NoticeEnded(ws, type) ==
    /\ bcast[ws].status \in {"returned", "raised"}
    /\ bcast[ws].message = Notice(type, ws_user_id[ws])

\* C24: once the user_joined broadcast of a connect has ended, every other
\* entry registered when it began has been sent the notice exactly once and
\* the handle of the user who joined has been sent none.
C24_JoinNoticeToAllOthers ==
    \A ws \in DOMAIN bcast :
        NoticeEnded(ws, "user_joined") =>
            /\ \A e \in bcast[ws].snapshot :
                   e[1] # ws_user_id[ws] =>
                       Cardinality(AttemptsTo(bcast[ws], e)) = 1
            /\ \A i \in 1..Len(bcast[ws].attempts) :
                   bcast[ws].attempts[i].connection # ws

\* C25: once the user_left broadcast of a disconnect has ended, every entry
\* still registered when it began has been sent the notice exactly once and
\* the handle that disconnected has been sent none.
C25_LeaveNoticeToAllRemaining ==
    \A ws \in DOMAIN bcast :
        NoticeEnded(ws, "user_left") =>
            /\ \A e \in bcast[ws].snapshot :
                   Cardinality(AttemptsTo(bcast[ws], e)) = 1
            /\ \A i \in 1..Len(bcast[ws].attempts) :
                   bcast[ws].attempts[i].connection # ws

----------------------------------------------------------------------------
(* Claims about disconnect and the session rows *)

\* C26: a call of disconnect for a user_id that has no registry entry
\* returns without an error and leaves the registry and every session row
\* as they were.
C26_DisconnectIdempotent ==
    [][\A ws \in DOMAIN pc :
          (/\ pc[ws] = "connected"
           /\ pc'[ws] # "connected"
           /\ ~dict_contains(active_connections, ws_user_id[ws]))
              => /\ pc'[ws] = "disconnected"
                 /\ active_connections' = active_connections
                 /\ user_sessions' = user_sessions]_vars

\* A handler has called disconnect after another handler of the same
\* user_id had removed the entry: the call found nothing and returned.
C26_Witness ==
    \E ws \in DOMAIN pc :
        /\ pc[ws] = "disconnected"
        /\ dc_connection_id[ws] = None
        /\ \E other \in DOMAIN pc :
               /\ other # ws
               /\ ws_user_id[other] = ws_user_id[ws]
               /\ pc[other] \in {"disconnected", "disconnect_raised"}

\* C27: end_session changes only rows that are open: a row that has been
\* closed keeps its disconnected_at whatever is called afterwards.
C27_ClosedRowsUntouched ==
    [][\A i \in 1..Len(user_sessions) :
          ~user_sessions[i].is_active => user_sessions'[i] = user_sessions[i]]_vars

\* C28: no two rows of user_sessions carry the same connection_id.
C28_ConnectionIdsUnique ==
    \A i, j \in 1..Len(user_sessions) :
        i # j => user_sessions[i].connection_id # user_sessions[j].connection_id

\* The session rows of a user, and the handlers that asked for a user_id.
RowsOfUser(user_id) ==
    {i \in 1..Len(user_sessions) : user_sessions[i].user_id = user_id}

HandlersOf(user_id) == {ws \in DOMAIN pc : ws_user_id[ws] = user_id}

\* C29: after two or more calls of connect for one user_id have returned,
\* one after the other and with no disconnect of that user_id, the registry
\* holds one entry for it, that of the handle that connected last, the users
\* table holds the user_id, and every session of it is active.
C29_SecondConnectWins ==
    \A user_id \in UserIds :
        (/\ Cardinality(RowsOfUser(user_id)) >= 2
         /\ \A ws \in HandlersOf(user_id) : pc[ws] \in {"idle", "connected"})
            => LET last == CHOOSE i \in RowsOfUser(user_id) :
                               \A j \in RowsOfUser(user_id) : j <= i
               IN  /\ Cardinality({i \in Live(active_connections) :
                                      active_connections[i].key = user_id}) = 1
                   /\ connection_id_of(dict_getitem(active_connections, user_id))
                          = user_sessions[last].connection_id
                   /\ user_id \in users
                   /\ \A i \in RowsOfUser(user_id) : user_sessions[i].is_active

\* Two handles have connected as doc1, the second after the first, and a
\* third handler is connected as another user.
C29_Witness ==
    /\ Cardinality(RowsOfUser("doc1")) = 2
    /\ \A ws \in HandlersOf("doc1") : pc[ws] = "connected"
    /\ \E ws \in DOMAIN pc : pc[ws] = "connected" /\ ws_user_id[ws] = "doc2"

----------------------------------------------------------------------------
(* Claims about the order of a connection's messages (SpecLoop) *)

\* C30: a handler takes a frame from receive_text only when the turn for the
\* frame before has ended: it awaits no notice, holds no frame, and its
\* broadcast has returned from all its sends.
C30_OneMessageAtATime ==
    [][\A ws \in DOMAIN frames :
          Received(ws) =>
              /\ pc[ws] = "receive"
              /\ data[ws] = NoFrame
              /\ bcast[ws].status \in {"none", "returned"}
              /\ bcast[ws].target = NoTarget]_vars

\* The handler has taken its third frame, and it is suspended in the send of
\* that frame's payload to the other client.
C30_Witness ==
    \E ws \in DOMAIN frames :
        /\ frames[ws] = 3
        /\ pc[ws] = "msg"
        /\ bcast[ws].status = "sending"
        /\ bcast[ws].target.connection # ws

----------------------------------------------------------------------------
(* Claims about several connections of one user *)

\* A handler that is connected and has not ended.
InLoop == {"receive", "msg"} \cup Notices

\* C35: when the handler of an older connection of a user runs its
\* disconnect path while the registry maps the user to the handle of a
\* newer connection that is still in its loop, the registry goes on
\* mapping the user to that handle.
C35_NewerConnectionKept ==
    [][\A old, ws \in DOMAIN pc :
          (/\ old # ws
           /\ disconnects'[old] = disconnects[old] + 1
           /\ ws_user_id[old] = ws_user_id[ws]
           /\ pc[ws] \in InLoop
           /\ dict_contains(active_connections, ws_user_id[ws])
           /\ dict_getitem(active_connections, ws_user_id[ws]) = ws)
              => /\ dict_contains(active_connections', ws_user_id[ws])
                 /\ dict_getitem(active_connections', ws_user_id[ws]) = ws]_vars

\* C37: no call of connect raises, also when two calls for one unknown
\* user_id overlap at the awaits of create_or_update_user.
C37_ConcurrentConnectsSucceed ==
    \A ws \in DOMAIN pc : pc[ws] # "connect_raised"

\* C38: whenever no call of connect is in progress, every registry entry
\* has an active session row opened with the token of its handle.
C38_NoEntryWithoutSession ==
    (\A ws \in DOMAIN pc : pc[ws] \notin InConnect)
        => \A i \in Live(active_connections) :
               \E r \in SessionsOf(active_connections[i].value) :
                   user_sessions[r].is_active

----------------------------------------------------------------------------
(* Claims about the admission bound *)

\* The admitted calls of key k made in the window that ends with its j-th
\* call: those less than time_window seconds before it, itself included.
AdmittedInWindow(k, j) ==
    {i \in 1..j : /\ calls[k][i].ok
                  /\ calls[k][j].t - calls[k][i].t < time_window}

\* C36: for every key, whatever the order in which the handlers call
\* check_rate_limit(key, N, W), the calls that return true within any
\* interval shorter than W seconds number at most N.
C36_AdmissionBound ==
    \A k \in DOMAIN calls : \A j \in 1..Len(calls[k]) :
        Cardinality(AdmittedInWindow(k, j)) <= max_requests

\* C36: a key made N admitted calls and one more, refused, all within one
\* window, and later an admitted call once the window had passed.
C36_Witness ==
    \E k \in DOMAIN calls : \E j, l \in 1..Len(calls[k]) :
        /\ j < l
        /\ ~calls[k][j].ok
        /\ Cardinality(AdmittedInWindow(k, j)) = max_requests
        /\ calls[k][l].ok
        /\ calls[k][l].t - calls[k][j].t >= time_window

----------------------------------------------------------------------------
(* validate_user_id on arbitrary arguments (security/utils.py, 36-43) *)

MaxSampleLen == 2

\* Characters the sampled arguments are made of: of the class, and outside
\* it (a space, punctuation, a non-ASCII letter, a line feed).
SampleChars == {"a", "Z", "7", "_", "-", " ", "@", "é", "\n"}

Repeat(c, n) == [i \in 1..n |-> c]

\* The sampled arguments: None, every short string, and strings around the
\* length limit.
SampleUserIds ==
    {Absent}
    \cup {JsonString(s) :
            s \in UNION {[1..n -> SampleChars] : n \in 0..MaxSampleLen}}
    \cup {JsonString(Repeat("A", n)) : n \in {MaxUserIdLen - 1, MaxUserIdLen,
                                              MaxUserIdLen + 1}}
    \cup {JsonString(Append(Repeat("A", n), "\n")) :
            n \in {MaxUserIdLen - 1, MaxUserIdLen}}

\* validate_user_id(user_id) for None or a string: "not user_id" is true of
\* None and of the empty string.
validate_user_id_value(user_id) ==
    IF user_id = Absent THEN FALSE ELSE validate_user_id_chars(user_id.items)

\* Nothing but the utilities runs: no clock, no registry, no handler, no
\* ledger.
Idle ==
    /\ now = 0
    /\ ticks = 0
    /\ rate_limit_storage = <<>>
    /\ max_requests = 0
    /\ time_window = 0
    /\ calls = <<>>
    /\ active_connections = <<>>
    /\ bcast = <<>>
    /\ send_errors = <<>>
    /\ NoTasks
    /\ users = {}
    /\ user_sessions = <<>>
    /\ dc_connection_id = <<>>
    /\ messages = <<>>
    /\ save_to_db = <<>>

ValidateInit ==
    /\ Idle
    /\ sanitized = <<>>
    /\ online_users = <<>>
    /\ recent_messages = <<>>
    /\ validated \in {[user_id |-> v, called |-> FALSE, result |-> FALSE] :
                        v \in SampleUserIds}

ValidateCall ==
    /\ ~validated.called
    /\ validated' = [validated EXCEPT
           !.called = TRUE,
           !.result = validate_user_id_value(validated.user_id)]
    /\ UNCHANGED <<sanitized, online_users, recent_messages>>
    /\ UNCHANGED <<rateVars, regVars, taskVars>>
    /\ UNCHANGED <<users, user_sessions, dc_connection_id, messages, save_to_db>>

ValidateNext == ValidateCall

SpecValidate == ValidateInit /\ [][ValidateNext]_vars

----------------------------------------------------------------------------
(* Claims about validate_user_id *)

\* A string of 1 to 100 characters, each an ASCII letter, a digit, an
\* underscore or a hyphen.
WellFormedUserId(v) ==
    /\ v # Absent
    /\ Len(v.items) \in 1..MaxUserIdLen
    /\ \A i \in 1..Len(v.items) : v.items[i] \in IdChars

\* C32: validate_user_id returns true exactly for the strings of 1 to 100
\* ASCII letters, digits, underscores and hyphens, and false for every other
\* string, one ending with a newline included, and for the absent value.
C32_ValidExactlyWellFormed ==
    validated.called
        => (validated.result <=> WellFormedUserId(validated.user_id))

----------------------------------------------------------------------------
(* sanitize_input applied to its own result (security/utils.py, 19-34) *)

MaxSanitizeLen == 2

\* Characters of the sampled texts: plain, blank and markup.
SanitizeChars == {"a", " ", "<", "&"}

SanitizeTexts == UNION {[1..n -> SanitizeChars] : n \in 0..MaxSanitizeLen}

\* max_length: cutting inside the text, at its end, and the default.
SanitizeLengths == 0..MaxSanitizeLen \cup {MaxTextLen}

SanitizeInit ==
    /\ Idle
    /\ validated = <<>>
    /\ online_users = <<>>
    /\ recent_messages = <<>>
    /\ \E text \in SanitizeTexts, max_length \in SanitizeLengths, bleach \in BOOLEAN :
           sanitized = [text |-> text, max_length |-> max_length,
                        bleach |-> bleach, results |-> <<>>]

\* sanitize_input(text, max_length), then sanitize_input of what it returned
\* with the same max_length.
SanitizeCall ==
    /\ Len(sanitized.results) < 2
    /\ LET arg == IF sanitized.results = <<>> THEN sanitized.text
                  ELSE sanitized.results[Len(sanitized.results)]
       IN  sanitized' = [sanitized EXCEPT !.results =
               Append(@, sanitize_input(arg, sanitized.max_length, sanitized.bleach))]
    /\ UNCHANGED <<rateVars, regVars, taskVars>>
    /\ UNCHANGED <<users, user_sessions, dc_connection_id, messages, save_to_db>>
    /\ UNCHANGED <<validated, online_users, recent_messages>>

SanitizeNext == SanitizeCall

SpecSanitize == SanitizeInit /\ [][SanitizeNext]_vars

----------------------------------------------------------------------------
(* Claims about sanitize_input *)

\* C34: sanitize_input is idempotent: for every text, also one holding <, >
\* or &, and every max_length, sanitizing the result again returns it
\* unchanged.
C34_SanitizeIdempotent ==
    Len(sanitized.results) = 2 => sanitized.results[2] = sanitized.results[1]

----------------------------------------------------------------------------
(* get_online_users (services/websocket_manager.py, 70-90) called while    *)
(* other tasks connect and disconnect.                                     *)

\* list(self.active_connections.keys())
list_keys(d) == LET live == dict_compact(d)
                IN  [i \in 1..Len(live) |-> live[i].key]

\* The dict get_online_users appends for user_id: the projection of the
\* User row get_user_by_id found, or the stand-in for a missing row.
online_entry(rows, user_id) ==
    IF user_id \in rows
    THEN [user_id |-> user_id, from |-> "User"]
    ELSE [user_id |-> user_id, from |-> "Unknown"]

NoOnlineQuery ==
    [status |-> "idle", online_user_ids |-> <<>>, users_data |-> <<>>, count |-> 0]

OnlineInit ==
    /\ MgrStart
    /\ validated = <<>>
    /\ sanitized = <<>>
    /\ recent_messages = <<>>
    /\ online_users = NoOnlineQuery

\* The return statement: len(self.active_connections) is read now.
online_return(q, d) == [q EXCEPT !.status = "returned", !.count = dict_used(d)]

\* get_online_users is called: the snapshot of the keys, then the await of
\* the first get_user_by_id, or the return when there is no key.
OnlineCall ==
    /\ online_users.status = "idle"
    /\ LET q == [online_users EXCEPT
                    !.online_user_ids = list_keys(active_connections)]
       IN  online_users' =
               IF q.online_user_ids = <<>>
               THEN online_return(q, active_connections)
               ELSE [q EXCEPT !.status = "lookup"]
    /\ UNCHANGED <<rateVars, regVars, taskVars>>
    /\ UNCHANGED <<users, user_sessions, dc_connection_id, messages, save_to_db>>
    /\ UNCHANGED <<validated, sanitized, recent_messages>>

\* A get_user_by_id returned: the entry is appended, and the loop awaits the
\* next lookup or the function returns.
OnlineLookup ==
    /\ online_users.status = "lookup"
    /\ LET user_id == online_users.online_user_ids[Len(online_users.users_data) + 1]
           q == [online_users EXCEPT
                    !.users_data = Append(@, online_entry(users, user_id))]
       IN  online_users' =
               IF Len(q.users_data) = Len(q.online_user_ids)
               THEN online_return(q, active_connections)
               ELSE q
    /\ UNCHANGED <<rateVars, regVars, taskVars>>
    /\ UNCHANGED <<users, user_sessions, dc_connection_id, messages, save_to_db>>
    /\ UNCHANGED <<validated, sanitized, recent_messages>>

OnlineNext ==
    \/ \E ws \in TokenSockets :
           \/ MgrCall(ws)
           \/ MgrPut(ws)
           \/ MgrUserSelect(ws)
           \/ MgrUserCommit(ws)
           \/ MgrSessionCommit(ws)
           \/ MgrDisconnect(ws)
    \/ OnlineCall
    \/ OnlineLookup

SpecOnline == OnlineInit /\ [][OnlineNext]_vars

----------------------------------------------------------------------------
(* Claims about get_online_users *)

\* C31: what get_online_users returns has exactly one entry per user id of
\* the registry, each the projection of the ledger's User or the stand-in
\* with department "Unknown", and its count is the number of its entries,
\* also when connects and disconnects run between its lookups.
C31_CountIsNumberOfEntries ==
    online_users.status = "returned"
        => /\ online_users.count = Len(online_users.users_data)
           /\ Len(online_users.users_data) = Len(online_users.online_user_ids)
           /\ \A i \in 1..Len(online_users.users_data) :
                  /\ online_users.users_data[i].user_id = online_users.online_user_ids[i]
                  /\ online_users.users_data[i].from = "User"
                         => online_users.users_data[i].user_id \in users
           /\ \A i, j \in 1..Len(online_users.users_data) :
                  online_users.users_data[i].user_id = online_users.users_data[j].user_id
                      => i = j

----------------------------------------------------------------------------
(* get_recent_messages (services/database_service.py, 96-110) over a       *)
(* messages table that grows while the clock advances.                     *)

\* The orders in which ORDER BY created_at DESC may return the rows: rows
\* of equal created_at come in whatever order the database chooses.
created_at_desc(rows) ==
    {p \in [1..Len(rows) -> 1..Len(rows)] :
        /\ \A i, j \in 1..Len(rows) : p[i] = p[j] => i = j
        /\ \A i, j \in 1..Len(rows) :
               i < j => rows[p[i]].created_at >= rows[p[j]].created_at}

\* What get_recent_messages(db, limit, offset) may return.
get_recent_messages(rows, limit, offset) ==
    LET last == IF offset + limit < Len(rows) THEN offset + limit ELSE Len(rows)
    IN  {[i \in 1..(IF last > offset THEN last - offset ELSE 0) |->
              rows[p[offset + i]]] : p \in created_at_desc(rows)}

NoRecentQuery == [called |-> FALSE, limit |-> 0, total |-> 0, result |-> <<>>]

RecentInit ==
    /\ Idle
    /\ validated = <<>>
    /\ sanitized = <<>>
    /\ online_users = <<>>
    /\ recent_messages = NoRecentQuery

\* The database clock moves on.
RecentTick ==
    /\ ticks < MaxTicks
    /\ now' = now + 1
    /\ ticks' = ticks + 1
    /\ UNCHANGED <<rate_limit_storage, max_requests, time_window, calls>>
    /\ UNCHANGED <<regVars, taskVars, dbVars>>

\* A create_message commits its row.
RecentCreate ==
    /\ Len(messages) < MaxMessages
    /\ \E user_id \in {"doc1", "doc2"} :
           messages' = create_message(messages, user_id, <<"h", "i">>, "text",
                                      uuid4(uuids_in_use), now)
    /\ UNCHANGED <<rateVars, regVars, taskVars>>
    /\ UNCHANGED <<users, user_sessions, dc_connection_id, save_to_db, queryVars>>

\* One call get_recent_messages(session, limit).
RecentQuery ==
    /\ \E limit \in 0..(MaxMessages + 1) :
       \E result \in get_recent_messages(messages, limit, 0) :
           recent_messages' = [called |-> TRUE, limit |-> limit,
                               total |-> Len(messages), result |-> result]
    /\ UNCHANGED <<rateVars, regVars, taskVars>>
    /\ UNCHANGED <<users, user_sessions, dc_connection_id, messages, save_to_db>>
    /\ UNCHANGED <<validated, sanitized, online_users>>

RecentNext == RecentTick \/ RecentCreate \/ RecentQuery

SpecRecent == RecentInit /\ [][RecentNext]_vars

----------------------------------------------------------------------------
(* Claims about get_recent_messages *)

\* C33: get_recent_messages(limit) returns the min(limit, total) most
\* recently created messages, the newest first, also when two of them were
\* created within the same clock tick.
C33_NewestFirst ==
    recent_messages.called
        => /\ Len(recent_messages.result) =
                  (IF recent_messages.limit < recent_messages.total
                   THEN recent_messages.limit ELSE recent_messages.total)
           /\ \A i \in 1..Len(recent_messages.result) :
                  recent_messages.result[i] = messages[recent_messages.total - i + 1]

----------------------------------------------------------------------------
(* The endpoint's stamping of a frame (main.py, 229-236) in front of the   *)
(* database-backed broadcast.                                              *)

\* message_data.update({"timestamp": ..., "message_id": str(uuid.uuid4())})
stamp(message, message_id) ==
    [kind |-> message.kind, type |-> message.type, text |-> message.text,
     user_id |-> message.user_id, message_id |-> message_id]

\* The objects a handler stamps and broadcasts.
StampedShapes ==
    {Envelope(type, text, user_id) :
        type \in PayloadTypes,
        text \in {Absent, JsonString(<<"h", "i">>)},
        user_id \in {None, "doc1"}}

\* The handler of doc1 stamps the object of a frame and calls
\* broadcast(json.dumps(message_data), exclude_user=user_id), save_to_db
\* being left at its default.
StampCall ==
    /\ bcast[Caller].status \in {"none", "returned", "raised"}
    /\ Len(messages) < MaxMessages
    /\ \E shape \in StampedShapes :
           LET message == stamp(shape, uuid4(uuids_in_use))
               prelude == broadcast_prelude(message, TRUE)
           IN  bcast' = [bcast EXCEPT ![Caller] =
                   IF prelude = "deliver"
                   THEN broadcast_begin(active_connections, message, "doc1")
                   ELSE [NoCall EXCEPT
                            !.status = IF prelude = "create" THEN "saving"
                                       ELSE "raised",
                            !.message = message,
                            !.exclude_user = "doc1",
                            !.snapshot = dict_items(active_connections)]]
    /\ save_to_db' = [save_to_db EXCEPT ![Caller] = TRUE]
    /\ send_errors' = [send_errors EXCEPT ![Caller] = {}]
    /\ UNCHANGED <<rateVars, active_connections, taskVars>>
    /\ UNCHANGED <<users, user_sessions, dc_connection_id, messages, queryVars>>

StampNext == StampCall \/ PersistCommit \/ BroadcastSendDone

SpecStamp == PersistInit /\ [][StampNext]_vars

----------------------------------------------------------------------------
(* Claims about the message identifier *)

\* C39: the Message row persisted for a chat payload carries the message_id
\* of the payload that is delivered to the recipients.
C39_RowCarriesPayloadId ==
    [][Len(messages') > Len(messages)
          => messages'[Len(messages')].message_id
                 = bcast[Caller].message.message_id]_vars

====
